---- MODULE Spec2Model ----
(***************************************************************************)
(* Model of the cloud-parser crawler.                                      *)
(*                                                                         *)
(*   Spec       one crawl invocation: run() and the recursive dfs_crawl()  *)
(*              of recursive_crawler.py, driven step by step against a     *)
(*              remote share and a browser session.                        *)
(*   FairSpec   Spec with weak fairness of its steps (every adapter wait   *)
(*              is a bounded poll, so every step completes).               *)
(*                                                                         *)
(* Strings of the program are sequences of one-character strings, so that  *)
(* lower(), endswith(), split(), strip(), quote() and unquote() are        *)
(* computed character by character as the code computes them.              *)
(***************************************************************************)
EXTENDS Integers, Sequences, FiniteSets, TLC

----------------------------------------------------------------------------
(* Bounds of the model *)

\* largest finite --depth value explored
MaxDepthLimit == 2

\* deepest generated tree handed to flatten (edges below the root)
MaxTreeDepth == 1

\* runs of the batch program followed one after the other
MaxBatchRuns == 2

\* most activation records of dfs_crawl the model follows (the deepest share
\* of the model needs three)
MaxStack == 4

\* number of calls of run() the caller makes, one per target row
MaxCrawlRuns == 2

\* the clock readings 0..MaxClock
MaxClock == 2

\* calls of save_json on one tree
MaxSaves == 2

----------------------------------------------------------------------------
(* Python values *)

\* Python's None where a string is expected
None == <<"None">>

\* Optional[int]: <<>> is None, <<d>> is the integer d
NoDepth == <<>>

Some(d) == <<d>>

\* truthiness of an Optional[str] (line 307: `if src:`)
Truthy(s) == s # None /\ s # <<>>

----------------------------------------------------------------------------
(* String helpers *)

UpperAlpha ==
  <<"A","B","C","D","E","F","G","H","I","J","K","L","M",
    "N","O","P","Q","R","S","T","U","V","W","X","Y","Z">>

LowerAlpha ==
  <<"a","b","c","d","e","f","g","h","i","j","k","l","m",
    "n","o","p","q","r","s","t","u","v","w","x","y","z">>

\* str.lower() on one character
LowerChar(c) ==
  IF \E i \in DOMAIN UpperAlpha : UpperAlpha[i] = c
  THEN LowerAlpha[CHOOSE i \in DOMAIN UpperAlpha : UpperAlpha[i] = c]
  ELSE c

\* str.lower()
Lower(s) == [i \in DOMAIN s |-> LowerChar(s[i])]

\* str.endswith(suffix)
EndsWith(s, suffix) ==
  /\ Len(suffix) <= Len(s)
  /\ SubSeq(s, Len(s) - Len(suffix) + 1, Len(s)) = suffix

\* str.startswith(prefix)
StartsWith(s, prefix) ==
  /\ Len(prefix) <= Len(s)
  /\ SubSeq(s, 1, Len(prefix)) = prefix

\* `x in seq`
InSeq(x, seq) == \E i \in DOMAIN seq : seq[i] = x

\* list(dict.fromkeys(seq)): drop later duplicates, keep first occurrences
RECURSIVE Dedup(_)
RECURSIVE DedupKeepLast(_)
\* each element kept at its last occurrence
DedupKeepLast(seq) ==
  IF seq = <<>> THEN <<>>
  ELSE IF InSeq(Head(seq), Tail(seq)) THEN DedupKeepLast(Tail(seq))
  ELSE <<Head(seq)>> \o DedupKeepLast(Tail(seq))

Dedup(seq) ==
  IF seq = <<>> THEN <<>>
  ELSE LET init == Dedup(SubSeq(seq, 1, Len(seq) - 1))
           last == seq[Len(seq)]
       IN  IF InSeq(last, init) THEN init ELSE Append(init, last)

\* index of the last "/" of a string, 0 when there is none
LastSlash(s) ==
  IF \E i \in DOMAIN s : s[i] = "/"
  THEN CHOOSE i \in DOMAIN s : s[i] = "/" /\ \A j \in DOMAIN s : s[j] = "/" => j <= i
  ELSE 0

\* percent-encoding table of urllib.parse.quote(_, safe="") for the
\* characters of the model that are not unreserved
QuoteTable ==
  << <<" ", <<"%","2","0">> >>,
     <<"%", <<"%","2","5">> >>,
     <<"/", <<"%","2","F">> >>,
     <<"'", <<"%","2","7">> >> >>

QuoteChar(c) ==
  IF \E i \in DOMAIN QuoteTable : QuoteTable[i][1] = c
  THEN QuoteTable[CHOOSE i \in DOMAIN QuoteTable : QuoteTable[i][1] = c][2]
  ELSE <<c>>

\* urllib.parse.quote(s, safe="")
RECURSIVE Quote(_)
Quote(s) ==
  IF s = <<>> THEN <<>> ELSE QuoteChar(Head(s)) \o Quote(Tail(s))

\* urllib.parse.unquote(s): a %XX escape is decoded, anything else is kept
RECURSIVE Unquote(_)
Unquote(s) ==
  IF s = <<>> THEN <<>>
  ELSE IF \E i \in DOMAIN QuoteTable : StartsWith(s, QuoteTable[i][2])
       THEN LET i == CHOOSE k \in DOMAIN QuoteTable : StartsWith(s, QuoteTable[k][2])
            IN  <<QuoteTable[i][1]>> \o Unquote(SubSeq(s, 4, Len(s)))
       ELSE <<Head(s)>> \o Unquote(Tail(s))

----------------------------------------------------------------------------
(* recursive_crawler.py: pure helpers *)

\* the suffixes collected, compared case-insensitively
IMAGE_EXTENSIONS ==
  << <<".","p","n","g">>, <<".","j","p","g">>, <<".","j","p","e","g">> >>

\* is_image_name without the lower() of line 111
IsImageNameCaseSensitive(name) ==
  \E i \in DOMAIN IMAGE_EXTENSIONS : EndsWith(name, IMAGE_EXTENSIONS[i])

\* is_image_name(name)
IsImageName(name) ==
  LET low == Lower(name)
  IN  \E i \in DOMAIN IMAGE_EXTENSIONS : EndsWith(low, IMAGE_EXTENSIONS[i])

\* last_segment_names(path): (display, encoded) of the last path segment
LastSegmentNames(path) ==
  LET k   == LastSlash(path)
      seg == IF k > 0 THEN SubSeq(path, k + 1, Len(path)) ELSE path
  IN  IF seg = <<>> \/ seg = path
      THEN <<None, None>>
      ELSE <<Unquote(seg), Quote(Unquote(seg))>>

\* a Node of the crawl result
MkNode(path, files, folders, display, encoded) ==
  [path |-> path, files |-> files, folders |-> folders,
   folder_display_name |-> display, folder_encoded_name |-> encoded]

\* a FileItem
FileItem(name, src) == [name |-> name, preview_src |-> src]

\* flatten(node), lines 358-387: the folder row of the node, one file row
\* per file, then the rows of each child
FolderRow(node) ==
  [type |-> "folder", path |-> node.path,
   folder_display_name |-> node.folder_display_name,
   folder_encoded_name |-> node.folder_encoded_name]

FileRow(node, f) ==
  [type |-> "file", path |-> node.path, name |-> f.name,
   preview_src |-> f.preview_src,
   parent_folder_display_name |-> node.folder_display_name,
   parent_folder_encoded_name |-> node.folder_encoded_name]

\* flatten that emits no folder row for a node without files and children
RECURSIVE FlattenSkipsEmpty(_)
FlattenSkipsEmpty(node) ==
  IF node.files = <<>> /\ node.folders = <<>> THEN <<>>
  ELSE LET RECURSIVE Kids(_)
           Kids(children) ==
             IF children = <<>> THEN <<>>
             ELSE FlattenSkipsEmpty(Head(children)) \o Kids(Tail(children))
       IN  <<FolderRow(node)>>
             \o [i \in DOMAIN node.files |-> FileRow(node, node.files[i])]
             \o Kids(node.folders)

\* flatten that descends into the children before it emits the file rows
RECURSIVE FlattenChildrenFirst(_)
FlattenChildrenFirst(node) ==
  LET RECURSIVE Kids(_)
      Kids(children) ==
        IF children = <<>> THEN <<>>
        ELSE FlattenChildrenFirst(Head(children)) \o Kids(Tail(children))
  IN  <<FolderRow(node)>>
        \o Kids(node.folders)
        \o [i \in DOMAIN node.files |-> FileRow(node, node.files[i])]

RECURSIVE Flatten(_)
RECURSIVE FlattenChildren(_)
FlattenChildren(children) ==
  IF children = <<>> THEN <<>>
  ELSE Flatten(Head(children)) \o FlattenChildren(Tail(children))

Flatten(node) ==
  <<FolderRow(node)>>
    \o [i \in DOMAIN node.files |-> FileRow(node, node.files[i])]
    \o FlattenChildren(node.folders)

\* one try more than line 36 allows
ClickRetryOneMore == 3 + 1

\* line 36
CLICK_RETRY == 3

\* what el.click() can do: succeed, or raise one of the two exceptions the
\* loop catches (lines 165, 190), or raise another WebDriverException
ClickOutcomes ==
  {"ok", "ElementClickInterceptedException", "StaleElementReferenceException",
   "ElementNotInteractableException"}

\* the except clause of lines 165 and 190
CaughtByRetry(e) ==
  e \in {"ElementClickInterceptedException", "StaleElementReferenceException"}

\* node_to_dict(node), lines 389-396
RECURSIVE NodeToDict(_)
NodeToDict(node) ==
  [path |-> node.path,
   folder_display_name |-> node.folder_display_name,
   folder_encoded_name |-> node.folder_encoded_name,
   files |-> [i \in DOMAIN node.files |->
                [name |-> node.files[i].name,
                 preview_src |-> node.files[i].preview_src]],
   folders |-> [i \in DOMAIN node.folders |-> NodeToDict(node.folders[i])]]

\* `meta or {}` of line 402 for meta = None: the empty dict
NoMeta == [k \in {} |-> <<>>]

\* datetime.utcnow().isoformat() + "Z" of line 401, for the clock reading t
ClockDigits == <<"0", "1", "2", "3", "4">>

IsoFormat(t) == <<"T", ClockDigits[t + 1], "Z">>

\* a payload in which the clock's generated_at replaces the caller's
PayloadStampWins(tree, flat, m, t) ==
  [meta |-> ("generated_at" :> IsoFormat(t)) @@ m,
   tree |-> NodeToDict(tree),
   flat |-> flat]

\* save_json, lines 399-406: the payload json.dump writes.  The dict
\* display {"generated_at": ..., **meta} lets a key of the caller's meta
\* replace generated_at
Payload(tree, flat, m, t) ==
  [meta |-> m @@ ("generated_at" :> IsoFormat(t)),
   tree |-> NodeToDict(tree),
   flat |-> flat]

----------------------------------------------------------------------------
(* The remote share: what the browser shows at each location.            *)
(* anchors[p] is the sequence of a[ng-if] elements rendered at p, each    *)
(* with its visible text and the kind its ng-if attribute selects.        *)

Anchor(text, kind) == [text |-> text, kind |-> kind]

Dir(name) == Anchor(name, "dir")

File(name) == Anchor(name, "file")

\* location reached by opening folder `name` at `p` on an ordinary share
ChildPath(p, name) == p \o <<"/">> \o Quote(name)

PHome == <<"/","h">>

NameA == <<"A">>

NameB == <<"B">>

\* a name that percent-encoding changes
NameC == <<"C"," ","D">>

NameUp == <<"u","p">>

APng == <<"a",".","p","n","g">>

BTxt == <<"b",".","t","x","t">>

CJPG == <<"c",".","J","P","G">>

DJpeg == <<"d",".","j","p","e","g">>

XJpg == <<"x",".","j","p","g">>

YPng == <<"y",".","P","n","g">>

ZGif == <<"z",".","g","i","f">>

\* the location string the share reports for folder "C D" of /h: its own
\* encoding of the name, not the percent-encoding
PathCD == PHome \o <<"/","C","+","D">>

\* a two-level tree whose root lists folder "C D" before folder "A";
\* folder "C D" shows only an anchor that is neither kind
RemoteTree ==
  [root    |-> PHome,
   anchors |-> (PHome :> <<Dir(NameC), File(APng), Dir(NameA)>>)
            @@ (ChildPath(PHome, NameA) :> <<File(XJpg), Dir(NameB), File(ZGif), File(CJPG)>>)
            @@ (ChildPath(ChildPath(PHome, NameA), NameB) :> <<File(YPng)>>)
            @@ (PathCD :> <<Anchor(NameUp, "other")>>),
   alias     |-> {<<PHome, NameC, PathCD>>},
   nopreview |-> {<<ChildPath(PHome, NameA), XJpg>>},
   emptysrc  |-> {}]

\* one folder holding the four leaves of the extension example
RemoteFiles ==
  [root    |-> PHome,
   anchors |-> (PHome :> <<File(APng), File(BTxt), File(CJPG), File(DJpeg)>>),
   alias     |-> {},
   nopreview |-> {},
   emptysrc  |-> {}]

\* a cyclic share: the folder "up" of /h/A leads back to /h
RemoteCycle ==
  [root    |-> PHome,
   anchors |-> (PHome :> <<File(APng), Dir(NameA)>>)
            @@ (ChildPath(PHome, NameA) :> <<Dir(NameUp), File(YPng)>>),
   alias     |-> {<<ChildPath(PHome, NameA), NameUp, PHome>>},
   nopreview |-> {},
   emptysrc  |-> {<<PHome, APng>>}]

\* duplicate anchors, an anchor without text, and two names for one location
RemoteDup ==
  [root    |-> PHome,
   anchors |-> (PHome :> <<Dir(NameA), Dir(NameA), Anchor(<<>>, "dir"), Dir(NameB)>>)
            @@ (ChildPath(PHome, NameA) :> <<File(YPng), File(YPng)>>),
   alias     |-> {<<PHome, NameB, ChildPath(PHome, NameA)>>},
   nopreview |-> {},
   emptysrc  |-> {}]

\* /h/A renders no a[ng-if] element at all (an empty folder)
RemoteEmpty ==
  [root    |-> PHome,
   anchors |-> (PHome :> <<Dir(NameA), Dir(NameC)>>)
            @@ (ChildPath(PHome, NameA) :> <<>>)
            @@ (ChildPath(PHome, NameC) :> <<File(APng)>>),
   alias     |-> {},
   nopreview |-> {},
   emptysrc  |-> {}]

\* /h/B is reached by two paths of different length: through /h/A (two
\* edges) and straight from the root (one edge); it holds a folder itself
RemoteShortcut ==
  [root    |-> PHome,
   anchors |-> (PHome :> <<Dir(NameA), Dir(NameB)>>)
            @@ (ChildPath(PHome, NameA) :> <<Dir(NameB)>>)
            @@ (ChildPath(PHome, NameB) :> <<File(YPng), Dir(NameA)>>)
            @@ (ChildPath(ChildPath(PHome, NameB), NameA) :> <<File(APng)>>),
   alias     |-> {<<ChildPath(PHome, NameA), NameB, ChildPath(PHome, NameB)>>},
   nopreview |-> {},
   emptysrc  |-> {}]

Remotes == {RemoteTree, RemoteFiles, RemoteCycle, RemoteDup, RemoteEmpty, RemoteShortcut}

\* where the session lands when folder `name` is opened at p
Link(r, p, name) ==
  IF \E a \in r.alias : a[1] = p /\ a[2] = name
  THEN (CHOOSE a \in r.alias : a[1] = p /\ a[2] = name)[3]
  ELSE ChildPath(p, name)

\* the src attribute of the preview <img> of leaf `name` at p; None when no
\* preview surface appears within the wait
PreviewSrc(r, p, name) ==
  IF <<p, name>> \in r.nopreview THEN None
  ELSE IF <<p, name>> \in r.emptysrc THEN <<>>
  ELSE <<"s","r","c",":">> \o name

\* names of the anchors of one kind, blank texts skipped (lines 131-142)
RECURSIVE NamesOfKind(_, _)
NamesOfKind(as, kind) ==
  IF as = <<>> THEN <<>>
  ELSE LET a    == Head(as)
           rest == NamesOfKind(Tail(as), kind)
       IN  IF a.text # <<>> /\ a.kind = kind THEN <<a.text>> \o rest ELSE rest

\* list_raw_items(driver) once the listing is there: (folders, files)
ListRawItems(as) ==
  <<Dedup(NamesOfKind(as, "dir")), Dedup(NamesOfKind(as, "file"))>>

----------------------------------------------------------------------------
(* batch_crawl.py: pure helpers *)

\* str.isspace() for the characters of the model
IsSpace(c) == c \in {" ", "\t", "\n"}

\* str.isalnum() for the characters of the model
IsAlnum(c) ==
  \/ \E i \in DOMAIN UpperAlpha : UpperAlpha[i] = c
  \/ \E i \in DOMAIN LowerAlpha : LowerAlpha[i] = c
  \/ c \in {"0","1","2","3","4","5","6","7","8","9"}

\* s.lstrip(chars)
RECURSIVE LStrip(_, _)
LStrip(s, chars) ==
  IF s # <<>> /\ Head(s) \in chars THEN LStrip(Tail(s), chars) ELSE s

\* s.rstrip(chars)
RECURSIVE RStrip(_, _)
RStrip(s, chars) ==
  IF s # <<>> /\ s[Len(s)] \in chars
  THEN RStrip(SubSeq(s, 1, Len(s) - 1), chars)
  ELSE s

\* s.strip(chars)
StripChars(s, chars) == RStrip(LStrip(s, chars), chars)

\* s.strip()
Strip(s) == StripChars(s, {" ", "\t", "\n"})

\* the lines a text file yields when iterated, each without its newline
RECURSIVE Lines(_)
Lines(text) ==
  IF text = <<>> THEN <<>>
  ELSE IF \E i \in DOMAIN text : text[i] = "\n"
       THEN LET k == CHOOSE i \in DOMAIN text :
                       text[i] = "\n" /\ \A j \in 1..(i - 1) : text[j] # "\n"
            IN  <<SubSeq(text, 1, k - 1)>> \o Lines(SubSeq(text, k + 1, Len(text)))
       ELSE <<text>>

\* lines 32-33: the brand of one stripped ledger line, after the first tab
\* when there is one (parts = line.split("\t", 1))
BrandOfLine(line) ==
  IF \E i \in DOMAIN line : line[i] = "\t"
  THEN LET k == CHOOSE i \in DOMAIN line :
                  line[i] = "\t" /\ \A j \in 1..(i - 1) : line[j] # "\t"
       IN  SubSeq(line, k + 1, Len(line))
  ELSE line

\* read_processed(path): the set of brands of the file, empty when it is missing
ReadProcessed(file) ==
  IF file = None THEN {}
  ELSE LET ls == Lines(file)
       IN  {BrandOfLine(Strip(ls[i])) : i \in {j \in DOMAIN ls : Strip(ls[j]) # <<>>}}

\* datetime.utcnow().isoformat(timespec="seconds") + "Z", shortened: a
\* timestamp holds no whitespace
Timestamp == <<"2","5","T","0","9","Z">>

\* append_processed(path, brand): the file with one more line
AppendProcessed(file, brand) ==
  (IF file = None THEN <<>> ELSE file) \o Timestamp \o <<"\t">> \o brand \o <<"\n">>

\* line 48: a character is kept or replaced by "_"
SafeChar(c) ==
  IF IsAlnum(c) \/ c \in {" ", "-", "_", ".", "(", ")"} THEN c ELSE "_"

\* str.split(): the whitespace-separated words of s
RECURSIVE Words(_)
Words(s) ==
  LET t == LStrip(s, {" ", "\t", "\n"})
  IN  IF t = <<>> THEN <<>>
      ELSE IF \E i \in DOMAIN t : IsSpace(t[i])
           THEN LET k == CHOOSE i \in DOMAIN t :
                           IsSpace(t[i]) /\ \A j \in 1..(i - 1) : ~IsSpace(t[j])
                IN  <<SubSeq(t, 1, k - 1)>> \o Words(SubSeq(t, k + 1, Len(t)))
           ELSE <<t>>

\* sep.join(words)
RECURSIVE Join(_, _)
Join(sep, words) ==
  IF words = <<>> THEN <<>>
  ELSE IF Len(words) = 1 THEN words[1]
  ELSE words[1] \o sep \o Join(sep, Tail(words))

\* sanitize_filename(name)
SanitizeFilename(name) ==
  LET safe1 == [i \in DOMAIN name |-> SafeChar(name[i])]
      safe2 == Join(<<"_">>, Words(safe1))
      safe3 == StripChars(safe2, {" ", ".", "_"})
  IN  IF safe3 = <<>> THEN <<"b","r","a","n","d">> ELSE safe3

\* line 105: outdir / f"{safe_name}.json", as the file name
OutJson(brand) == SanitizeFilename(brand) \o <<".","j","s","o","n">>

----------------------------------------------------------------------------
(* State *)

VARIABLES
  remote,     \* the share behind root_url (input of run)
  max_depth,  \* Optional[int] argument of run
  sess,       \* how the browser session behaves in this run
  cpc,        \* position of run(): "idle", "running", "done", "raised"
  driver,     \* "none", "live" or "quit"
  loc,        \* get_current_path(driver)
  visited,    \* the visited set of run()
  stack,      \* activation records of dfs_crawl, innermost last
  tree,       \* the Node returned by run(), NoTree before
  exc,        \* the exception that left run(), None before
  clicks,     \* entries activated so far: <<kind, location, name>>
  forced,     \* number of forced hash jumps of navigate_back
  acquired,   \* sessions created by webdriver.Chrome so far
  released,   \* sessions released by driver.quit() so far
  \* -- batch_crawl.py: main() over several runs of the program
  rows,       \* the brands read_csv_rows yields, in order
  overwrite,  \* --overwrite of the current run
  ledger,     \* content of the processed file, None while it does not exist
  artifacts,  \* the JSON files of outdir: [path, brand, complete]
  processed,  \* the in-memory set of main()
  bpc,        \* position of main()
  idx,        \* index of the current row
  total,      \* counters of main()
  success,
  failed,
  runNo,      \* number of runs of the program started so far
  log,        \* what became of each row of the current run, in order
  succeeded,  \* brands whose processing succeeded in an earlier run
  ledger0,    \* content of the processed file when the current run started
  interrupted,\* a KeyboardInterrupt arrived in the current run
  saved,      \* brands for which a call of save_json has returned, so far
  pending,    \* brands crawled with success whose append has not followed
  \* -- flatten() applied to a tree
  ftree,      \* the Node given to flatten
  frows,      \* the rows it returned
  fpc,        \* "ready" before the call, "done" after
  \* -- save_json() called on a tree and its rows
  now,        \* what the clock reads, in ticks
  meta,       \* the meta argument of save_json: key -> value
  outs,       \* the payloads written by the calls of save_json so far
  \* -- one call of click_folder_by_name / click_file_by_name
  kkind,      \* "dir" for click_folder_by_name, "file" for click_file_by_name
  kenv,       \* how the page answers during the call
  kpc,        \* position of the call
  ki,         \* the loop variable i of `for i in range(CLICK_RETRY)`
  ktries,     \* calls of el.click() made
  kforced,    \* calls of the JS click of line 170 / 195 made
  kactivated, \* activations of the entry that took effect
  kexc,       \* the exception that left the call, None if none
  \* -- one call of navigate_back, close_preview or list_raw_items
  aenv,       \* how the session answers during the call
  ares,       \* what the call did and how it was left
  apc,        \* "ready" before the call, "done" after
  \* -- the leaf loop of dfs_crawl over one listing
  lfiles,     \* raw_files
  lpc,        \* position inside the loop body
  li,         \* index of the current fname in raw_files
  lsrc,       \* the local src of the current iteration
  limage_files, \* image_files
  lskipped,   \* names logged by the warn of line 313
  lcalls      \* calls made on the session so far: <<function, fname, outcome>>

crawlVars ==
  <<remote, max_depth, sess, cpc, driver, loc, visited, stack, tree, exc, clicks, forced,
    acquired, released>>

batchVars ==
  <<rows, overwrite, ledger, artifacts, processed, bpc, idx, total, success,
    failed, runNo, log, succeeded, ledger0, interrupted, saved, pending>>

flatVars == <<ftree, frows, fpc, now, meta, outs>>

clickVars == <<kkind, kenv, kpc, ki, ktries, kforced, kactivated, kexc>>

callVars == <<aenv, ares, apc>>

leafVars == <<lfiles, lpc, li, lsrc, limage_files, lskipped, lcalls>>

vars == <<crawlVars, batchVars, flatVars, clickVars, callVars, leafVars>>

NoTree == [path |-> None]

\* the session classes explored: whether history back may restore the parent
\* location, and whether adapter calls may fail (waits time out, clicks
\* raise, an activation leaves the location unchanged)
Sessions == [back : {"any", "never"}, faults : BOOLEAN]

Depths == {NoDepth} \cup {Some(d) : d \in 0..MaxDepthLimit}

\* outcomes of a call that fails only on a misbehaving session
Faults == IF sess.faults THEN {FALSE, TRUE} ELSE {FALSE}

\* wait_for_listing(driver) returns: at least one a[ng-if] element is present
\* at the current location (lines 118-120); otherwise TimeoutException
ListingPresent(p) == p \in DOMAIN remote.anchors /\ remote.anchors[p] # <<>>

\* an a[ng-if] element of that kind and text is rendered at p, so that
\* click_folder_by_name / click_file_by_name find it (lines 157, 182)
Shown(p, name, kind) ==
  /\ p \in DOMAIN remote.anchors
  /\ \E i \in DOMAIN remote.anchors[p] :
       remote.anchors[p][i] = Anchor(name, kind)

\* a fresh activation record of dfs_crawl(driver, visited, d, depth)
NewFrame(d) ==
  [phase |-> "enter", max_depth |-> d, path |-> None,
   display |-> None, encoded |-> None,
   raw_folders |-> <<>>, raw_files |-> <<>>, image_files |-> <<>>,
   folders |-> <<>>, fi |-> 1, di |-> 1, before |-> None]

\* the Node a frame holds (lines 315-321, with the children appended since)
NodeOf(f) == MkNode(f.path, f.image_files, f.folders, f.display, f.encoded)

Top == stack[Len(stack)]

SetTop(f) == [stack EXCEPT ![Len(stack)] = f]

\* max_depth - 1 of line 341
Decr(d) == IF d = NoDepth THEN NoDepth ELSE Some(d[1] - 1)

\* a visited check that never fires
RevisitedNever(path, seen) == FALSE

\* the visited check of line 290
Revisited(path, seen) == path \in seen

\* the depth guard of line 323 with < in place of <=
DepthExhaustedLate(d) == d # NoDepth /\ d[1] < 0

\* the depth guard of line 323
DepthExhausted(d) == d # NoDepth /\ d[1] <= 0

\* the state of the parts of the program a specification does not run
CrawlIdle ==
  /\ remote = RemoteFiles
  /\ max_depth = NoDepth
  /\ sess = [back |-> "any", faults |-> FALSE]
  /\ cpc = "idle"
  /\ driver = "none"
  /\ loc = <<>>
  /\ visited = {}
  /\ stack = <<>>
  /\ tree = NoTree
  /\ exc = None
  /\ clicks = <<>>
  /\ forced = 0
  /\ acquired = 0
  /\ released = 0

BatchIdle ==
  /\ rows = <<>>
  /\ overwrite = FALSE
  /\ ledger = None
  /\ artifacts = {}
  /\ processed = {}
  /\ bpc = "idle"
  /\ idx = 0
  /\ total = 0
  /\ success = 0
  /\ failed = 0
  /\ runNo = 0
  /\ log = <<>>
  /\ succeeded = {}
  /\ ledger0 = None
  /\ interrupted = FALSE
  /\ saved = {}
  /\ pending = {}

ClickIdle ==
  /\ kkind = "dir"
  /\ kenv = [found |-> TRUE, scroll |-> "ok",
             attempts |-> [a \in 1..CLICK_RETRY |-> "ok"], js |-> "ok"]
  /\ kpc = "idle"
  /\ ki = 0
  /\ ktries = 0
  /\ kforced = 0
  /\ kactivated = 0
  /\ kexc = None

CallIdle ==
  /\ aenv = <<>>
  /\ ares = <<>>
  /\ apc = "idle"

LeafIdle ==
  /\ lfiles = <<>>
  /\ lpc = "idle"
  /\ li = 0
  /\ lsrc = None
  /\ limage_files = <<>>
  /\ lskipped = <<>>
  /\ lcalls = <<>>

FlattenIdle ==
  /\ ftree = NoTree
  /\ frows = <<>>
  /\ fpc = "ready"
  /\ now = 0
  /\ meta = NoMeta
  /\ outs = <<>>

Init ==
  /\ BatchIdle
  /\ FlattenIdle
  /\ ClickIdle
  /\ CallIdle
  /\ LeafIdle
  /\ remote \in Remotes
  /\ max_depth \in Depths
  /\ sess \in Sessions
  /\ cpc = "idle"
  /\ driver = "none"
  /\ loc = <<>>
  /\ visited = {}
  /\ stack = <<>>
  /\ tree = NoTree
  /\ exc = None
  /\ clicks = <<>>
  /\ forced = 0
  /\ acquired = 0
  /\ released = 0

----------------------------------------------------------------------------
(* run(root_url, max_depth) and dfs_crawl, one step per adapter call *)

\* driver.quit() placed after the crawl instead of in a finally clause: it
\* is not reached when the crawl raises
QuitOnReturnOnly(raising, n) == IF raising THEN n ELSE n + 1

\* run, lines 438-439: `finally: driver.quit()` runs once when the try block
\* is left, by return or by exception
QuitInFinally(raising, n) == n + 1

\* an exception leaves dfs_crawl: no frame catches it, run's finally quits
\* the driver (lines 438-439) and the exception reaches run's caller
Propagate(e) ==
  /\ cpc' = "raised"
  /\ exc' = e
  /\ stack' = <<>>
  /\ driver' = "quit"
  /\ released' = QuitInFinally(TRUE, released)
  /\ UNCHANGED <<remote, max_depth, sess, tree>>

\* run, lines 415-434: create the driver, open the root, wait for its
\* listing, create the visited set and call dfs_crawl
\* a visited set kept from one call of run() to the next
SharedVisited(old) == old

\* run, line 433: `visited: Set[str] = set()`
FreshVisited(old) == {}

RunStart ==
  /\ UNCHANGED <<batchVars, flatVars, clickVars, callVars, leafVars>>
  /\ cpc = "idle"
  /\ \E nodriver \in Faults, timeout \in Faults :
       IF nodriver
       THEN \* webdriver.Chrome raises before the try block
            /\ cpc' = "raised"
            /\ exc' = <<"WebDriverException">>
            /\ UNCHANGED <<remote, max_depth, sess, driver, loc, visited,
                           stack, tree, clicks, forced, acquired, released>>
       ELSE /\ loc' = remote.root
            /\ acquired' = acquired + 1
            /\ UNCHANGED <<clicks, forced>>
            /\ IF ListingPresent(remote.root) /\ ~timeout
               THEN /\ driver' = "live"
                    /\ visited' = FreshVisited(visited)
                    /\ stack' = <<NewFrame(max_depth)>>
                    /\ cpc' = "running"
                    /\ UNCHANGED <<remote, max_depth, sess, tree, exc, released>>
               ELSE /\ Propagate(<<"TimeoutException">>)
                    /\ UNCHANGED visited

\* dfs_crawl, lines 287-297: read the location, check the visited set, add
\* the location and list its entries.  On a revisit line 292 builds the
\* placeholder as Node(path=..., files=[], folders=[], *names): the two names
\* are passed positionally, so they collide with the keywords path and files
\* and the constructor raises TypeError.
Enter ==
  /\ UNCHANGED <<batchVars, flatVars, clickVars, callVars, leafVars>>
  /\ cpc = "running"
  /\ Top.phase = "enter"
  /\ UNCHANGED <<loc, clicks, forced, acquired>>
  /\ IF Revisited(loc, visited)
     THEN /\ Propagate(<<"TypeError">>)
          /\ UNCHANGED visited
     ELSE /\ visited' = visited \cup {loc}
          /\ \E timeout \in Faults :
               IF ListingPresent(loc) /\ ~timeout
               THEN LET names == LastSegmentNames(loc)
                        items == ListRawItems(remote.anchors[loc])
                    IN  /\ stack' = SetTop([Top EXCEPT
                                       !.phase = "files",
                                       !.path = loc,
                                       !.display = names[1],
                                       !.encoded = names[2],
                                       !.raw_folders = items[1],
                                       !.raw_files = items[2]])
                        /\ UNCHANGED <<remote, max_depth, sess, cpc, driver, tree, exc, released>>
               ELSE Propagate(<<"TimeoutException">>)

\* what can happen to one image leaf (lines 304-313)
LeafOutcomes ==
  IF sess.faults
  THEN {"ok", "click_raises", "no_preview", "listing_timeout"}
  ELSE {"ok"}

\* dfs_crawl, lines 301-313: one iteration of the leaf loop
FileStep ==
  /\ UNCHANGED <<batchVars, flatVars, clickVars, callVars, leafVars>>
  /\ cpc = "running"
  /\ Top.phase = "files"
  /\ Top.fi <= Len(Top.raw_files)
  /\ UNCHANGED <<remote, max_depth, sess, cpc, driver, loc, visited, tree, exc, forced,
                 acquired, released>>
  /\ LET fname == Top.raw_files[Top.fi]
     IN  IF ~IsImageName(fname)
         THEN /\ stack' = SetTop([Top EXCEPT !.fi = @ + 1])
              /\ UNCHANGED clicks
         ELSE \E o \in LeafOutcomes :
                IF o = "click_raises" \/ ~Shown(loc, fname, "file")
                THEN \* click_file_by_name raises, caught at line 312
                     /\ stack' = SetTop([Top EXCEPT !.fi = @ + 1])
                     /\ UNCHANGED clicks
                ELSE LET src == IF o = "no_preview" THEN None
                                ELSE PreviewSrc(remote, loc, fname)
                         got == IF Truthy(src)
                                THEN Append(Top.image_files, FileItem(fname, src))
                                ELSE Top.image_files
                     IN  \* close_preview never raises; a timeout of the
                         \* wait_for_listing of line 311 is caught at 312
                         /\ stack' = SetTop([Top EXCEPT !.fi = @ + 1,
                                                        !.image_files = got])
                         /\ clicks' = Append(clicks, <<"file", loc, fname>>)

\* the loop left as soon as one fname was taken
LeafLoopOverEarly(f) == f.fi > 1 \/ f.fi > Len(f.raw_files)

\* `for fname in raw_files` of line 301 is exhausted
LeafLoopOver(f) == f.fi > Len(f.raw_files)

\* dfs_crawl, lines 315-325: the leaf loop is over, build the node and stop
\* here when the depth budget is used up
FilesDone ==
  /\ UNCHANGED <<batchVars, flatVars, clickVars, callVars, leafVars>>
  /\ cpc = "running"
  /\ Top.phase = "files"
  /\ LeafLoopOver(Top)
  /\ stack' = SetTop([Top EXCEPT
                !.phase = IF DepthExhausted(Top.max_depth) THEN "return" ELSE "folders"])
  /\ UNCHANGED <<remote, max_depth, sess, cpc, driver, loc, visited, tree, exc, clicks, forced,
                 acquired, released>>

\* the folders taken last first
NextFolderReversed(f) == f.raw_folders[Len(f.raw_folders) + 1 - f.di]

\* `for folder_name in raw_folders` of line 328: the current folder_name
NextFolder(f) == f.raw_folders[f.di]

\* dfs_crawl, lines 328-343: open the next folder, wait for the location to
\* change (or, on timeout, for the listing) and call dfs_crawl for it
FolderStep ==
  /\ UNCHANGED <<batchVars, flatVars, clickVars, callVars, leafVars>>
  /\ cpc = "running"
  /\ Top.phase = "folders"
  /\ Top.di <= Len(Top.raw_folders)
  /\ Len(stack) < MaxStack
  /\ UNCHANGED <<forced, acquired>>
  /\ LET name   == NextFolder(Top)
         before == loc
     IN  \E clickfails \in Faults, stuck \in Faults, timeout \in Faults :
           IF clickfails \/ ~Shown(before, name, "dir")
           THEN \* click_folder_by_name raises (line 331): no clickable
                \* element of that name within the wait, or the click fails
                /\ Propagate(<<"WebDriverException">>)
                /\ UNCHANGED <<loc, visited, clicks>>
           ELSE LET after == IF stuck THEN before ELSE Link(remote, before, name)
                IN  /\ loc' = after
                    /\ clicks' = Append(clicks, <<"dir", before, name>>)
                    /\ UNCHANGED visited
                    /\ IF after # before \/ (ListingPresent(after) /\ ~timeout)
                       THEN /\ stack' = Append(SetTop([Top EXCEPT !.phase = "await",
                                                                  !.before = before]),
                                               NewFrame(Decr(Top.max_depth)))
                            /\ UNCHANGED <<remote, max_depth, sess, cpc, driver, tree, exc, released>>
                       ELSE \* wait_for_listing of line 336 times out
                            Propagate(<<"TimeoutException">>)

\* dfs_crawl, lines 353-354: every folder was visited
FoldersDone ==
  /\ UNCHANGED <<batchVars, flatVars, clickVars, callVars, leafVars>>
  /\ cpc = "running"
  /\ Top.phase = "folders"
  /\ Top.di > Len(Top.raw_folders)
  /\ stack' = SetTop([Top EXCEPT !.phase = "return"])
  /\ UNCHANGED <<remote, max_depth, sess, cpc, driver, loc, visited, tree, exc, clicks, forced,
                 acquired, released>>

\* navigate_back(driver, previous_path), lines 271-282: the location it
\* leaves, or failure.  History back either restores previous_path within
\* the wait or not; if not, the hash is forced and the listing awaited.
\*   converges: driver.back() restored previous_path
\*   timeout:   the wait_for_listing of line 282 timed out
NavigateBackOK(previous_path, converges, timeout) ==
  converges \/ (ListingPresent(previous_path) /\ ~timeout)

\* navigate_back without the forced hash of line 281
NavigateBackLocNoJump(previous_path, current, converges) ==
  IF converges THEN previous_path ELSE current

\* the location navigate_back leaves: previous_path, restored by history
\* back (line 276) or set by the forced hash (line 281)
NavigateBackLoc(previous_path, current, converges) == previous_path

\* the child keeps the names last_segment_names derived from its location
ChildLabelFromLocation(name, child) ==
  <<child.folder_display_name, child.folder_encoded_name>>

\* lines 345-346: the display and encoded name a child is given
ChildLabel(name, child) == <<name, Quote(name)>>

\* dfs_crawl, lines 338-351: the call for a child returned; label the child
\* with the clicked name, append it, go back and wait for the listing
ChildReturn ==
  /\ UNCHANGED <<batchVars, flatVars, clickVars, callVars, leafVars>>
  /\ cpc = "running"
  /\ Len(stack) >= 2
  /\ Top.phase = "return"
  /\ UNCHANGED <<visited, clicks, acquired>>
  /\ LET parent == stack[Len(stack) - 1]
         name   == NextFolder(parent)
         label  == ChildLabel(name, NodeOf(Top))
         child  == [NodeOf(Top) EXCEPT !.folder_display_name = label[1],
                                       !.folder_encoded_name = label[2]]
     IN  \E converges \in (IF sess.back = "never" THEN {FALSE} ELSE {FALSE, TRUE}),
            timeout1 \in Faults, timeout2 \in Faults :
           /\ loc' = NavigateBackLoc(parent.before, loc, converges)
           /\ forced' = IF converges THEN forced ELSE forced + 1
           /\ IF /\ NavigateBackOK(loc', converges, timeout1)
                 /\ ListingPresent(loc') /\ ~timeout2
              THEN /\ stack' = Append(SubSeq(stack, 1, Len(stack) - 2),
                                      [parent EXCEPT !.phase = "folders",
                                                     !.folders = Append(@, child),
                                                     !.di = @ + 1])
                   /\ UNCHANGED <<remote, max_depth, sess, cpc, driver, tree, exc, released>>
              ELSE Propagate(<<"TimeoutException">>)

\* run, lines 434-439: dfs_crawl returned the root node; quit the driver
RunEnd ==
  /\ UNCHANGED <<batchVars, flatVars, clickVars, callVars, leafVars>>
  /\ cpc = "running"
  /\ Len(stack) = 1
  /\ Top.phase = "return"
  /\ tree' = NodeOf(Top)
  /\ stack' = <<>>
  /\ driver' = "quit"
  /\ released' = QuitInFinally(FALSE, released)
  /\ cpc' = "done"
  /\ UNCHANGED <<remote, max_depth, sess, loc, visited, exc, clicks, forced, acquired>>

Next ==
  \/ RunStart
  \/ Enter
  \/ FileStep
  \/ FilesDone
  \/ FolderStep
  \/ FoldersDone
  \/ ChildReturn
  \/ RunEnd

Spec == Init /\ [][Next]_vars

FairSpec == Spec /\ WF_vars(Next)

\* batch_crawl.main, lines 96-141: run() returned or its exception was
\* caught at line 136, and the loop calls run() for the next row: another
\* link, the same --depth, a fresh driver and a fresh visited set
RunAgain ==
  /\ UNCHANGED <<batchVars, flatVars, clickVars, callVars, leafVars>>
  /\ cpc \in {"done", "raised"}
  /\ acquired < MaxCrawlRuns
  /\ \E r \in Remotes, b \in Sessions :
       /\ remote' = r
       /\ sess' = b
  /\ cpc' = "idle"
  /\ loc' = <<>>
  /\ tree' = NoTree
  /\ exc' = None
  /\ clicks' = <<>>
  /\ forced' = 0
  /\ UNCHANGED <<max_depth, driver, visited, stack, acquired, released>>

SessionNext ==
  \/ Next
  \/ RunAgain

\* the calls of run() main() makes one after the other
SessionSpec == Init /\ [][SessionNext]_vars

----------------------------------------------------------------------------
(* batch_crawl.py: main(), one step per call that can fail or be interrupted *)

BrandA == <<"A">>

BrandB == <<"B">>

BrandC == <<"C">>

\* a brand cell holding a line break (a quoted multi-line CSV field)
BrandNL == <<"A","\n","B">>

BrandSlash == <<"A","/","B">>

BrandUnder == <<"A","_","B">>

\* the brand columns of the CSV files explored (read_csv_rows strips each cell
\* and drops rows with an empty brand or link)
TargetLists ==
  { <<BrandA, BrandB, BrandC>>,
    <<BrandNL, BrandB>>,
    <<BrandSlash, BrandUnder>>,
    <<BrandA, BrandA>> }

\* the processed file before the first run: missing, or one legacy line
InitialLedgers == {None, <<"C","\n">>}

BatchInit ==
  /\ CrawlIdle
  /\ ClickIdle
  /\ CallIdle
  /\ LeafIdle
  /\ FlattenIdle
  /\ rows \in TargetLists
  /\ ledger \in InitialLedgers
  /\ overwrite = FALSE
  /\ artifacts = {}
  /\ processed = {}
  /\ bpc = "idle"
  /\ idx = 0
  /\ total = 0
  /\ success = 0
  /\ failed = 0
  /\ runNo = 0
  /\ log = <<>>
  /\ succeeded = {}
  /\ ledger0 = None
  /\ interrupted = FALSE
  /\ saved = {}
  /\ pending = {}

\* the skip test of line 100 without `and not args.overwrite`
ShouldSkipDespiteOverride(brand, done, ow) == brand \in done

\* line 100: the row is skipped
ShouldSkip(brand, done, ow) == brand \in done /\ ~ow

\* main() without the handler of line 136: the exception ends the program
AfterErrorUncaught == "crashed"

\* lines 136-141: where main() goes on after `except Exception`: to the
\* pacing sleep and the next row
AfterError == "sleep"

\* the handler of line 133 without its break: the loop goes on
AfterInterruptContinues == "sleep"

\* lines 133-135: where main() goes on after `except KeyboardInterrupt`
AfterInterrupt == "summary"

\* save_json line 409: open(out_path, "w") creates or truncates the file;
\* `complete` tells whether json.dump wrote all of it
PutArtifact(files, brand, complete) ==
  {a \in files : a.path # OutJson(brand)}
    \cup {[path |-> OutJson(brand), brand |-> brand, complete |-> complete,
           run |-> runNo, row |-> idx]}

\* the program starts: main(), lines 81-94
MainStart ==
  /\ UNCHANGED <<crawlVars, flatVars, clickVars, callVars, leafVars>>
  /\ bpc \in {"idle", "exited", "crashed"}
  /\ runNo < MaxBatchRuns
  /\ \E ow \in BOOLEAN : overwrite' = ow
  /\ processed' = ReadProcessed(ledger)
  /\ ledger0' = ledger
  /\ succeeded' = succeeded \cup {rows[i] : i \in {j \in DOMAIN log : log[j] = "ok"}}
  /\ runNo' = runNo + 1
  /\ idx' = 0
  /\ total' = 0
  /\ success' = 0
  /\ failed' = 0
  /\ log' = <<>>
  /\ interrupted' = FALSE
  /\ bpc' = "loop"
  /\ UNCHANGED <<rows, ledger, artifacts, saved, pending>>

\* lines 96-107: take the next row; skip it when it is already processed
\* a variant that counts only the rows that are not skipped
TotalAfterRowUnskipped(t, skip) == IF skip THEN t ELSE t + 1

\* total += 1 is the first statement of the loop body, ahead of the skip test
TotalAfterRow(t, skip) == t + 1

NextRow ==
  /\ UNCHANGED <<crawlVars, flatVars, clickVars, callVars, leafVars>>
  /\ bpc = "loop"
  /\ idx < Len(rows)
  /\ idx' = idx + 1
  /\ total' = TotalAfterRow(total, ShouldSkip(rows[idx + 1], processed, overwrite))
  /\ IF ShouldSkip(rows[idx + 1], processed, overwrite)
     THEN /\ log' = Append(log, "skipped")
          /\ bpc' = "loop"
     ELSE /\ bpc' = "crawl"
          /\ UNCHANGED log
  /\ UNCHANGED <<rows, overwrite, ledger, artifacts, processed, success, failed,
                 runNo, succeeded, ledger0, interrupted, saved, pending>>

\* line 96: the rows are exhausted
LoopEnd ==
  /\ UNCHANGED <<crawlVars, flatVars, clickVars, callVars, leafVars>>
  /\ bpc = "loop"
  /\ idx = Len(rows)
  /\ bpc' = "summary"
  /\ UNCHANGED <<rows, overwrite, ledger, artifacts, processed, idx, total, success,
                 failed, runNo, log, succeeded, ledger0, interrupted, saved, pending>>

\* lines 110-111: tree = run(link, max_depth); rows = flatten(tree)
CrawlRun ==
  /\ UNCHANGED <<crawlVars, flatVars, clickVars, callVars, leafVars>>
  /\ bpc = "crawl"
  /\ UNCHANGED <<rows, overwrite, ledger, artifacts, processed, idx, total, success,
                 runNo, succeeded, ledger0, saved>>
  /\ \E o \in {"ok", "raises", "interrupt"} :
       /\ pending' = IF o = "ok" THEN pending \cup {rows[idx]} ELSE pending
       /\ IF o = "ok"
          THEN /\ bpc' = "save"
               /\ UNCHANGED <<failed, log, interrupted>>
          ELSE IF o = "raises"
          THEN /\ failed' = failed + 1
               /\ log' = Append(log, "crawl_raised")
               /\ bpc' = AfterError
               /\ UNCHANGED interrupted
          ELSE /\ log' = Append(log, "interrupted")
               /\ interrupted' = TRUE
               /\ bpc' = AfterInterrupt
               /\ UNCHANGED failed

\* lines 114-126: save_json(tree, rows, out_path, meta)
SaveJson ==
  /\ UNCHANGED <<crawlVars, flatVars, clickVars, callVars, leafVars>>
  /\ bpc = "save"
  /\ UNCHANGED <<rows, overwrite, ledger, processed, idx, total, success,
                 runNo, succeeded, ledger0, pending>>
  /\ \E o \in {"ok", "raises", "interrupt"}, opened \in BOOLEAN :
       /\ saved' = IF o = "ok" THEN saved \cup {rows[idx]} ELSE saved
       /\ IF o = "ok"
          THEN /\ artifacts' = PutArtifact(artifacts, rows[idx], TRUE)
               /\ bpc' = "append"
               /\ UNCHANGED <<failed, log, interrupted>>
          ELSE /\ artifacts' = IF opened
                               THEN PutArtifact(artifacts, rows[idx], FALSE)
                               ELSE artifacts
               /\ IF o = "raises"
                  THEN /\ failed' = failed + 1
                       /\ log' = Append(log, "save_raised")
                       /\ bpc' = AfterError
                       /\ UNCHANGED interrupted
                  ELSE /\ log' = Append(log, "interrupted")
                       /\ interrupted' = TRUE
                       /\ bpc' = AfterInterrupt
                       /\ UNCHANGED failed

\* lines 129-131: append_processed, processed.add, success += 1
AppendLedger ==
  /\ UNCHANGED <<crawlVars, flatVars, clickVars, callVars, leafVars>>
  /\ bpc = "append"
  /\ UNCHANGED <<rows, overwrite, artifacts, idx, total, runNo, succeeded, ledger0,
                 saved>>
  /\ \E o \in {"ok", "raises", "interrupt"}, written \in BOOLEAN :
       /\ pending' = IF o = "ok" \/ (o = "interrupt" /\ written)
                     THEN pending \ {rows[idx]} ELSE pending
       /\ IF o = "ok"
          THEN /\ ledger' = AppendProcessed(ledger, rows[idx])
               /\ processed' = processed \cup {rows[idx]}
               /\ success' = success + 1
               /\ log' = Append(log, "ok")
               /\ bpc' = "sleep"
               /\ UNCHANGED <<failed, interrupted>>
          ELSE IF o = "raises"
          THEN \* mkdir or open fails: nothing is written
               /\ failed' = failed + 1
               /\ log' = Append(log, "append_raised")
               /\ bpc' = AfterError
               /\ UNCHANGED <<ledger, processed, success, interrupted>>
          ELSE \* the interrupt arrives before or after the line is written
               /\ ledger' = IF written THEN AppendProcessed(ledger, rows[idx]) ELSE ledger
               /\ log' = Append(log, "interrupted")
               /\ interrupted' = TRUE
               /\ bpc' = AfterInterrupt
               /\ UNCHANGED <<processed, success, failed>>

\* line 141: time.sleep(args.sleep), outside the try block: an interrupt
\* here leaves main() as an uncaught KeyboardInterrupt
Sleep ==
  /\ UNCHANGED <<crawlVars, flatVars, clickVars, callVars, leafVars>>
  /\ bpc = "sleep"
  /\ \E intr \in BOOLEAN :
       /\ bpc' = IF intr THEN "crashed" ELSE "loop"
       /\ interrupted' = (interrupted \/ intr)
  /\ UNCHANGED <<rows, overwrite, ledger, artifacts, processed, idx, total, success,
                 failed, runNo, log, succeeded, ledger0, saved, pending>>

\* lines 143-148: the summary is printed and the program ends
Summary ==
  /\ UNCHANGED <<crawlVars, flatVars, clickVars, callVars, leafVars>>
  /\ bpc = "summary"
  /\ bpc' = "exited"
  /\ UNCHANGED <<rows, overwrite, ledger, artifacts, processed, idx, total, success,
                 failed, runNo, log, succeeded, ledger0, interrupted, saved, pending>>

BatchNext ==
  \/ MainStart
  \/ NextRow
  \/ LoopEnd
  \/ CrawlRun
  \/ SaveJson
  \/ AppendLedger
  \/ Sleep
  \/ Summary

BatchSpec == BatchInit /\ [][BatchNext]_vars

----------------------------------------------------------------------------
(* flatten() applied to trees of a bounded set *)

SamplePaths == {PHome, ChildPath(PHome, NameA)}

SampleFiles ==
  { <<>>,
    <<FileItem(APng, PreviewSrc(RemoteFiles, PHome, APng)),
      FileItem(CJPG, PreviewSrc(RemoteFiles, PHome, CJPG))>> }

\* every tree of at most d levels below the root, at most two children per
\* node; a node without files and children is a placeholder
RECURSIVE TreesOfDepth(_)
TreesOfDepth(d) ==
  LET kids == IF d = 0 THEN {<<>>}
              ELSE LET sub == TreesOfDepth(d - 1)
                   IN  {<<>>} \cup {<<a>> : a \in sub}
                              \cup {<<a, b>> : a \in sub, b \in sub}
  IN  {MkNode(p, fs, k, LastSegmentNames(p)[1], LastSegmentNames(p)[2]) :
         p \in SamplePaths, fs \in SampleFiles, k \in kids}

\* a three-level tree with a placeholder in the middle of a child list
DeepTree ==
  LET files == CHOOSE fs \in SampleFiles : fs # <<>>
      hole  == MkNode(PHome, <<>>, <<>>, NameUp, NameUp)
      low   == MkNode(ChildPath(ChildPath(PHome, NameA), NameB), files, <<>>, NameB, NameB)
      mid   == MkNode(ChildPath(PHome, NameA), <<>>, <<hole, low, hole>>, NameA, NameA)
  IN  MkNode(PHome, files, <<mid, low>>, None, None)

SampleTrees == TreesOfDepth(MaxTreeDepth) \cup {DeepTree}

FlattenInit ==
  /\ CrawlIdle
  /\ ClickIdle
  /\ CallIdle
  /\ LeafIdle
  /\ BatchIdle
  /\ ftree \in SampleTrees
  /\ frows = <<>>
  /\ fpc = "ready"
  /\ now = 0
  /\ meta = NoMeta
  /\ outs = <<>>

\* rows = flatten(tree)
ApplyFlatten ==
  /\ fpc = "ready"
  /\ frows' = Flatten(ftree)
  /\ fpc' = "done"
  /\ UNCHANGED <<ftree, now, meta, outs, crawlVars, batchVars, clickVars, callVars, leafVars>>

FlattenNext == ApplyFlatten

FlattenSpec == FlattenInit /\ [][FlattenNext]_vars

----------------------------------------------------------------------------
(* click_folder_by_name / click_file_by_name, one call, statement by
   statement; the two functions differ only in the xpath they look for *)

\* how the page can answer: whether an element of the name becomes clickable
\* within LOAD_TIMEOUT, what scrollIntoView does, what each el.click() does
\* and what the JS click does
ClickEnvs ==
  [found : BOOLEAN,
   scroll : {"ok", "StaleElementReferenceException"},
   attempts : [1..CLICK_RETRY -> ClickOutcomes],
   js : {"ok", "JavascriptException"}]

ClickInit ==
  /\ CrawlIdle
  /\ CallIdle
  /\ LeafIdle
  /\ BatchIdle
  /\ FlattenIdle
  /\ kkind \in {"dir", "file"}
  /\ kenv \in ClickEnvs
  /\ kpc = "wait"
  /\ ki = 0
  /\ ktries = 0
  /\ kforced = 0
  /\ kactivated = 0
  /\ kexc = None

\* the call is left by the exception e
ClickRaise(e) ==
  /\ kpc' = "raised"
  /\ kexc' = <<e>>

\* lines 157-159 / 182-184: wait until the element is clickable
ClickLocate ==
  /\ kpc = "wait"
  /\ IF kenv.found
     THEN kpc' = "scroll" /\ UNCHANGED kexc
     ELSE ClickRaise("TimeoutException")
  /\ UNCHANGED <<kkind, kenv, ki, ktries, kforced, kactivated,
                 crawlVars, batchVars, flatVars, callVars, leafVars>>

\* line 160 / 185: scroll the element into view
ClickScroll ==
  /\ kpc = "scroll"
  /\ IF kenv.scroll = "ok"
     THEN kpc' = "try" /\ UNCHANGED kexc
     ELSE ClickRaise(kenv.scroll)
  /\ UNCHANGED <<kkind, kenv, ki, ktries, kforced, kactivated,
                 crawlVars, batchVars, flatVars, callVars, leafVars>>

\* lines 161-168 / 186-193: one iteration of the loop
ClickAttempt ==
  /\ kpc = "try"
  /\ ki < CLICK_RETRY
  /\ ktries' = ktries + 1
  /\ LET o == kenv.attempts[ki + 1]
     IN  IF o = "ok"
         THEN /\ kactivated' = kactivated + 1
              /\ kpc' = "returned"
              /\ UNCHANGED <<ki, kexc>>
         ELSE IF CaughtByRetry(o)
         THEN /\ ki' = ki + 1
              /\ UNCHANGED <<kpc, kactivated, kexc>>
         ELSE /\ ClickRaise(o)
              /\ UNCHANGED <<ki, kactivated>>
  /\ UNCHANGED <<kkind, kenv, kforced, crawlVars, batchVars, flatVars, callVars, leafVars>>

\* lines 169-170 / 194-195: the loop ran out, click through JS
ClickForced ==
  /\ kpc = "try"
  /\ ki >= CLICK_RETRY
  /\ kforced' = kforced + 1
  /\ IF kenv.js = "ok"
     THEN /\ kactivated' = kactivated + 1
          /\ kpc' = "returned"
          /\ UNCHANGED kexc
     ELSE /\ ClickRaise(kenv.js)
          /\ UNCHANGED kactivated
  /\ UNCHANGED <<kkind, kenv, ki, ktries, crawlVars, batchVars, flatVars, callVars, leafVars>>

ClickNext ==
  \/ ClickLocate
  \/ ClickScroll
  \/ ClickAttempt
  \/ ClickForced

ClickSpec == ClickInit /\ [][ClickNext]_vars

----------------------------------------------------------------------------
(* save_json() called repeatedly on one tree, its rows and one meta *)

\* the meta arguments explored: none, the caller's annotations, and
\* annotations that carry a generated_at of their own
Metas ==
  { NoMeta,
    ("brand" :> BrandA),
    ("brand" :> BrandA) @@ ("generated_at" :> <<"T", "9", "Z">>) }

SerializeTrees == TreesOfDepth(1) \cup {DeepTree}

SerializeInit ==
  /\ CrawlIdle
  /\ ClickIdle
  /\ CallIdle
  /\ LeafIdle
  /\ BatchIdle
  /\ ftree \in SerializeTrees
  /\ frows = <<>>
  /\ fpc = "ready"
  /\ now = 0
  /\ meta \in Metas
  /\ outs = <<>>

\* save_json(tree, rows, out_path, meta), lines 398-410
CallSaveJson ==
  /\ fpc = "done"
  /\ Len(outs) < MaxSaves
  /\ outs' = Append(outs, Payload(ftree, frows, meta, now))
  /\ UNCHANGED <<ftree, frows, fpc, now, meta, crawlVars, batchVars, clickVars, callVars, leafVars>>

\* time passes
ClockTick ==
  /\ now < MaxClock
  /\ now' = now + 1
  /\ UNCHANGED <<ftree, frows, fpc, meta, outs, crawlVars, batchVars, clickVars, callVars, leafVars>>

SerializeNext ==
  \/ ApplyFlatten
  \/ CallSaveJson
  \/ ClockTick

SerializeSpec == SerializeInit /\ [][SerializeNext]_vars

----------------------------------------------------------------------------
(* navigate_back(driver, previous_path), one call *)

\* the locations a call is tried on
BackPaths == {PHome, ChildPath(PHome, NameA), ChildPath(ChildPath(PHome, NameA), NameB)}

\* the argument and how the session answers: what driver.back() does, where
\* it leaves the session once URL_CHANGE_TIMEOUT is over, what the script of
\* line 281 does and whether the listing shows up within LOAD_TIMEOUT
BackEnvs ==
  [previous_path : BackPaths,
   back : {"ok", "WebDriverException"},
   lands : BackPaths,
   js : {"ok", "JavascriptException"},
   listing : BOOLEAN]

\* navigate_back, lines 271-282: the location it leaves, the forced jumps
\* and waits for the listing it made, and the exception it raised if any
NavigateBack(e) ==
  IF e.back # "ok"
  THEN [loc |-> e.lands, forced |-> 0, resync |-> 0, exc |-> <<e.back>>]
  ELSE IF e.lands = e.previous_path
  THEN [loc |-> e.previous_path, forced |-> 0, resync |-> 0, exc |-> None]
  ELSE IF e.js # "ok"
  THEN [loc |-> e.lands, forced |-> 1, resync |-> 0, exc |-> <<e.js>>]
  ELSE [loc |-> e.previous_path, forced |-> 1, resync |-> 1,
        exc |-> IF e.listing THEN None ELSE <<"TimeoutException">>]

BackInit ==
  /\ CrawlIdle
  /\ BatchIdle
  /\ FlattenIdle
  /\ ClickIdle
  /\ LeafIdle
  /\ aenv \in BackEnvs
  /\ ares = <<>>
  /\ apc = "ready"

CallNavigateBack ==
  /\ apc = "ready"
  /\ ares' = NavigateBack(aenv)
  /\ apc' = "done"
  /\ UNCHANGED <<aenv, crawlVars, batchVars, flatVars, clickVars, leafVars>>

BackNext == CallNavigateBack

BackSpec == BackInit /\ [][BackNext]_vars

----------------------------------------------------------------------------
(* close_preview(driver), one call *)

\* the dismissals in the order of the code: the ESC key sent to <body>
\* (line 229), then the selectors of the list of lines 242-247
Dismissals ==
  << "Keys.ESCAPE", "[ng-click*=\"close\"]", ".icon-close", ".close",
     "button[title*=\"Close\"]" >>

\* what one dismissal can come to: the preview is gone within the wait, the
\* element is not found, acting on it fails, or the preview stays visible
CloseOutcomes ==
  {"confirmed", "NoSuchElementException", "ElementNotInteractableException",
   "TimeoutException"}

CloseEnvs == [DOMAIN Dismissals -> CloseOutcomes]

\* close_preview catching only the timeout of the wait
CaughtByCloseTimeoutOnly(x) == x = "TimeoutException"

\* `except Exception` of lines 238 and 257: every exception of the session
CaughtByClose(x) == x \in CloseOutcomes \ {"confirmed"}

\* lines 227-261 from dismissal i on; tried are the dismissals made so far
RECURSIVE ClosePreviewFrom(_, _, _)
ClosePreviewFrom(e, i, tried) ==
  IF i > Len(Dismissals)
  THEN [tried |-> tried, closed_by |-> None, warned |-> TRUE, exc |-> None]
  ELSE LET now_tried == Append(tried, Dismissals[i])
       IN  IF e[i] = "confirmed"
           THEN [tried |-> now_tried, closed_by |-> <<Dismissals[i]>>,
                 warned |-> FALSE, exc |-> None]
           ELSE IF CaughtByClose(e[i])
           THEN ClosePreviewFrom(e, i + 1, now_tried)
           ELSE [tried |-> now_tried, closed_by |-> None, warned |-> FALSE,
                 exc |-> <<e[i]>>]

\* close_preview, lines 225-262
ClosePreview(e) == ClosePreviewFrom(e, 1, <<>>)

CloseInit ==
  /\ CrawlIdle
  /\ BatchIdle
  /\ FlattenIdle
  /\ ClickIdle
  /\ LeafIdle
  /\ aenv \in CloseEnvs
  /\ ares = <<>>
  /\ apc = "ready"

CallClosePreview ==
  /\ apc = "ready"
  /\ ares' = ClosePreview(aenv)
  /\ apc' = "done"
  /\ UNCHANGED <<aenv, crawlVars, batchVars, flatVars, clickVars, leafVars>>

CloseNext == CallClosePreview

CloseSpec == CloseInit /\ [][CloseNext]_vars

----------------------------------------------------------------------------
(* dfs_crawl, lines 299-313: the leaf loop over one listing, statement by
   statement *)

\* the raw_files the loop is run on
LeafListings ==
  { <<APng, BTxt, CJPG>>, <<XJpg, YPng>>, <<BTxt, DJpeg>>, <<>> }

\* the exceptions a call on the session can raise inside the loop body
LeafExceptions ==
  {"TimeoutException", "StaleElementReferenceException", "WebDriverException"}

\* the outcomes of wait_for_preview_image_and_get_src (lines 198-223): a
\* src, an empty src, None after the TimeoutException of its waits, or the
\* exception img.get_attribute raises on an element that went stale
PreviewOutcomes(fname) ==
  { <<"s","r","c",":">> \o fname, <<>>, None, <<"StaleElementReferenceException">> }

\* a handler for the timeout only
CaughtByLeafLoopTimeoutOnly(x) == x = "TimeoutException"

\* `except Exception` of line 312
CaughtByLeafLoop(x) == x \in LeafExceptions

\* a leaf recorded whatever src is
ShouldRecordAlways(src) == TRUE

\* `if src:` of line 307
ShouldRecord(src) == Truthy(src)

LeafInit ==
  /\ CrawlIdle
  /\ BatchIdle
  /\ FlattenIdle
  /\ ClickIdle
  /\ CallIdle
  /\ lfiles \in LeafListings
  /\ lpc = "next"
  /\ li = 1
  /\ lsrc = None
  /\ limage_files = <<>>
  /\ lskipped = <<>>
  /\ lcalls = <<>>

\* the body is left by exception x: line 313 logs the skip and the loop
\* goes on, unless the handler does not catch x
LeafRaise(x) ==
  IF CaughtByLeafLoop(x)
  THEN /\ lskipped' = Append(lskipped, lfiles[li])
       /\ li' = li + 1
       /\ lpc' = "next"
  ELSE /\ lpc' = "raised"
       /\ UNCHANGED <<lskipped, li>>

\* lines 301-303: take the next fname, pass over it unless is_image_name
LeafFilter ==
  /\ lpc = "next"
  /\ li <= Len(lfiles)
  /\ IF IsImageName(lfiles[li])
     THEN lpc' = "click" /\ UNCHANGED li
     ELSE li' = li + 1 /\ UNCHANGED lpc
  /\ UNCHANGED <<lfiles, lsrc, limage_files, lskipped, lcalls,
                 crawlVars, batchVars, flatVars, clickVars, callVars>>

\* line 305: click_file_by_name
LeafClick ==
  /\ lpc = "click"
  /\ \E o \in {"ok"} \cup LeafExceptions :
       /\ lcalls' = Append(lcalls, <<"click_file_by_name", lfiles[li], <<o>>>>)
       /\ IF o = "ok"
          THEN lpc' = "preview" /\ UNCHANGED <<lskipped, li>>
          ELSE LeafRaise(o)
  /\ UNCHANGED <<lfiles, lsrc, limage_files,
                 crawlVars, batchVars, flatVars, clickVars, callVars>>

\* line 306: src = wait_for_preview_image_and_get_src
LeafPreview ==
  /\ lpc = "preview"
  /\ \E o \in PreviewOutcomes(lfiles[li]) :
       /\ lcalls' = Append(lcalls,
                      <<"wait_for_preview_image_and_get_src", lfiles[li], o>>)
       /\ IF o = <<"StaleElementReferenceException">>
          THEN LeafRaise(o[1]) /\ UNCHANGED lsrc
          ELSE lsrc' = o /\ lpc' = "record" /\ UNCHANGED <<lskipped, li>>
  /\ UNCHANGED <<lfiles, limage_files,
                 crawlVars, batchVars, flatVars, clickVars, callVars>>

\* lines 307-308: append the FileItem if there is a src
LeafRecord ==
  /\ lpc = "record"
  /\ limage_files' = IF ShouldRecord(lsrc)
                     THEN Append(limage_files, FileItem(lfiles[li], lsrc))
                     ELSE limage_files
  /\ lpc' = "close"
  /\ UNCHANGED <<lfiles, li, lsrc, lskipped, lcalls,
                 crawlVars, batchVars, flatVars, clickVars, callVars>>

\* line 309: close_preview, which returns whatever the session does
LeafClose ==
  /\ lpc = "close"
  /\ \E closed \in BOOLEAN :
       lcalls' = Append(lcalls, <<"close_preview", lfiles[li],
                                  IF closed THEN <<"confirmed">>
                                            ELSE <<"unconfirmed">> >>)
  /\ lpc' = "listing"
  /\ UNCHANGED <<lfiles, li, lsrc, limage_files, lskipped,
                 crawlVars, batchVars, flatVars, clickVars, callVars>>

\* line 311: wait_for_listing
LeafListing ==
  /\ lpc = "listing"
  /\ \E o \in {"ok", "TimeoutException"} :
       /\ lcalls' = Append(lcalls, <<"wait_for_listing", lfiles[li], <<o>>>>)
       /\ IF o = "ok"
          THEN li' = li + 1 /\ lpc' = "next" /\ UNCHANGED lskipped
          ELSE LeafRaise(o)
  /\ UNCHANGED <<lfiles, lsrc, limage_files,
                 crawlVars, batchVars, flatVars, clickVars, callVars>>

\* line 315: raw_files is exhausted, the Node is built from image_files
LeafLoopEnd ==
  /\ lpc = "next"
  /\ li > Len(lfiles)
  /\ lpc' = "done"
  /\ UNCHANGED <<lfiles, li, lsrc, limage_files, lskipped, lcalls,
                 crawlVars, batchVars, flatVars, clickVars, callVars>>

LeafNext ==
  \/ LeafFilter
  \/ LeafClick
  \/ LeafPreview
  \/ LeafRecord
  \/ LeafClose
  \/ LeafListing
  \/ LeafLoopEnd

LeafSpec == LeafInit /\ [][LeafNext]_vars

----------------------------------------------------------------------------
(* list_raw_items(driver), one call *)

MaxAnchors == 3

\* what a.text can read: a name, a name with white space around it, blank
AnchorTexts == { <<"A">>, <<" ","A"," ">>, <<"B">>, <<" ">> }

\* an a[ng-if] element as find_elements returns it: its text, the kind its
\* ng-if attribute selects, and whether it has gone stale by the time the
\* loop reads it
PageAnchors == [text : AnchorTexts, kind : {"dir", "file", "other"}, stale : BOOLEAN]

\* the a[ng-if] elements of the page, none when the listing never shows
AnchorLists == UNION {[1..n -> PageAnchors] : n \in 0..MaxAnchors}

\* lines 131-142: the anchors whose text and ng-if could be read, with the
\* text stripped; a stale one is passed over (lines 141-142)
ReadAnchors(as) ==
  LET readable == SelectSeq(as, LAMBDA a : ~a.stale)
  IN  [i \in DOMAIN readable |-> Anchor(Strip(readable[i].text), readable[i].kind)]

\* list_raw_items, lines 123-147: wait_for_listing raises unless at least
\* one a[ng-if] element is present; then the anchors are read
ListRawItemsCall(as) ==
  IF as = <<>>
  THEN [exc |-> <<"TimeoutException">>, read |-> FALSE,
        folders |-> <<>>, files |-> <<>>]
  ELSE LET items == ListRawItems(ReadAnchors(as))
       IN  [exc |-> None, read |-> TRUE, folders |-> items[1], files |-> items[2]]

ListInit ==
  /\ CrawlIdle
  /\ BatchIdle
  /\ FlattenIdle
  /\ ClickIdle
  /\ LeafIdle
  /\ aenv \in AnchorLists
  /\ ares = <<>>
  /\ apc = "ready"

CallListRawItems ==
  /\ apc = "ready"
  /\ ares' = ListRawItemsCall(aenv)
  /\ apc' = "done"
  /\ UNCHANGED <<aenv, crawlVars, batchVars, flatVars, clickVars, leafVars>>

ListNext == CallListRawItems

ListSpec == ListInit /\ [][ListNext]_vars

----------------------------------------------------------------------------
(* Properties: helpers over trees and frames *)

MaxOf(S) == CHOOSE x \in S : \A y \in S : y <= x

RECURSIVE SumSeq(_)
SumSeq(ns) == IF ns = <<>> THEN 0 ELSE Head(ns) + SumSeq(Tail(ns))

\* edges on the longest path from a node down to a descendant
RECURSIVE Height(_)
Height(n) ==
  IF n.folders = <<>> THEN 0
  ELSE 1 + MaxOf({Height(n.folders[i]) : i \in DOMAIN n.folders})

\* the nodes exactly k edges below n
RECURSIVE NodesAt(_, _)
NodesAt(n, k) ==
  IF k = 0 THEN {n}
  ELSE UNION {NodesAt(n.folders[i], k - 1) : i \in DOMAIN n.folders}

RECURSIVE CountNodes(_)
CountNodes(n) == 1 + SumSeq([i \in DOMAIN n.folders |-> CountNodes(n.folders[i])])

RECURSIVE SumLeaves(_)
SumLeaves(n) ==
  Len(n.files) + SumSeq([i \in DOMAIN n.folders |-> SumLeaves(n.folders[i])])

\* every node of a tree
RECURSIVE AllNodes(_)
AllNodes(n) == {n} \cup UNION {AllNodes(n.folders[i]) : i \in DOMAIN n.folders}

CountRows(rs, type) == Cardinality({i \in DOMAIN rs : rs[i].type = type})

NamesOf(items) == [i \in DOMAIN items |-> items[i].name]

Finished == cpc \in {"done", "raised"}

\* the name ends, ignoring case, with .png, .jpg or .jpeg
AllowListed(name) ==
  \E ext \in { <<".","p","n","g">>, <<".","j","p","g">>, <<".","j","p","e","g">> } :
    /\ Len(ext) <= Len(name)
    /\ \A k \in 1..Len(ext) : LowerChar(name[Len(name) - Len(ext) + k]) = ext[k]

\* the leaves a visit of location p records on a session without faults:
\* the allow-listed names of its listing whose preview resolves, in order
ExpectedLeaves(p, names) ==
  SelectSeq(names, LAMBDA nm : AllowListed(nm) /\ Truthy(PreviewSrc(remote, p, nm)))

\* the tree of a share on which no location is met twice: the node of p with
\* its leaves and, while the depth budget lasts, one child per folder name
RECURSIVE RefTree(_, _, _, _)
RefTree(p, d, names, fuel) ==
  LET items == IF p \in DOMAIN remote.anchors
               THEN ListRawItems(remote.anchors[p]) ELSE <<<<>>, <<>>>>
      leaves == ExpectedLeaves(p, items[2])
      files  == [i \in DOMAIN leaves |->
                   FileItem(leaves[i], PreviewSrc(remote, p, leaves[i]))]
      kids   == IF DepthExhausted(d) \/ fuel = 0 THEN <<>>
                ELSE [i \in DOMAIN items[1] |->
                        RefTree(Link(remote, p, items[1][i]), Decr(d),
                                <<items[1][i], Quote(items[1][i])>>, fuel - 1)]
  IN  MkNode(p, files, kids, names[1], names[2])

----------------------------------------------------------------------------
(* Properties of the crawl *)

\* C3: whenever a dfs_crawl call finds the session at a location already in
\* the visited set, it returns an empty placeholder node for that location
\* (no leaves, no children) without listing, without recursing and without
\* raising, and the crawl goes on.
C3_RevisitYieldsPlaceholder ==
  [][ (cpc = "running" /\ Top.phase = "enter" /\ loc \in visited)
        => /\ cpc' = "running"
           /\ Len(stack') = Len(stack)
           /\ stack'[Len(stack')].phase = "return"
           /\ NodeOf(stack'[Len(stack')]).path = loc
           /\ NodeOf(stack'[Len(stack')]).files = <<>>
           /\ NodeOf(stack'[Len(stack')]).folders = <<>>
           /\ visited' = visited
           /\ clicks' = clicks ]_vars

\* C4: with depth limit d no node is more than d edges below the root, at
\* any time and in the result; a node exactly d edges below the root has no
\* children but carries the leaves extracted at its location; reaching the
\* limit is a normal return (with d = 0 the crawl raises nothing).
C4_DepthBound ==
  max_depth # NoDepth =>
    /\ Len(stack) <= max_depth[1] + 1
    /\ \A k \in DOMAIN stack : stack[k].max_depth = Some(max_depth[1] - (k - 1))
    /\ cpc = "done" =>
         /\ Height(tree) <= max_depth[1]
         /\ \A n \in NodesAt(tree, max_depth[1]) :
              /\ n.folders = <<>>
              /\ ~sess.faults =>
                   NamesOf(n.files) =
                     ExpectedLeaves(n.path, ListRawItems(remote.anchors[n.path])[2])
    /\ (max_depth = Some(0) /\ ~sess.faults /\ ListingPresent(remote.root))
         => cpc # "raised"

\* a crawl that stopped at the depth limit with leaves kept and folders left
C4_Witness ==
  /\ cpc = "done"
  /\ max_depth = Some(1)
  /\ \E n \in NodesAt(tree, 1) :
       /\ n.files # <<>>
       /\ ListRawItems(remote.anchors[n.path])[1] # <<>>

\* C5: every crawl invocation terminates, by returning or by raising, on
\* every share of the model (cyclic and duplicate links included) and for
\* every depth limit, none included, when every adapter call completes.
C5_Termination == <>Finished

\* the crawl of the cyclic share without depth limit has ended
C5_Witness ==
  /\ Finished
  /\ remote = RemoteCycle
  /\ max_depth = NoDepth
  /\ ~sess.faults
  /\ Cardinality(visited) = 2

\* C6: on a session whose history back never restores the parent location,
\* navigate_back forces the location, so that the session is at the node's
\* own location whenever its next entry is handled; the return from a child
\* does not abort; the crawl ends; and the tree of a crawl that completes is
\* the tree of the share, every sibling folder included.
C6_BackRecovery ==
  /\ [](sess.back = "never" =>
          /\ (cpc = "running" /\ Top.phase \in {"files", "folders"})
               => loc = Top.path
          /\ (cpc = "done" /\ ~sess.faults)
               => tree = RefTree(remote.root, max_depth,
                                 LastSegmentNames(remote.root), MaxStack))
  /\ [][ (sess.back = "never" /\ ~sess.faults /\ cpc = "running"
            /\ Len(stack) >= 2 /\ Top.phase = "return")
           => (cpc' = "running" /\ forced' = forced + 1) ]_vars
  /\ (sess.back = "never" => <>Finished)

\* a completed crawl of two sibling folders, each left by a forced jump
C6_Witness ==
  /\ cpc = "done"
  /\ sess.back = "never"
  /\ forced >= 2
  /\ Len(tree.folders) >= 2

\* C7: only leaves whose name ends, ignoring case, with an allow-listed
\* suffix are activated and recorded; when every preview resolves the leaves
\* recorded are exactly the matching names in listing order, and the listing
\* a.png, b.txt, c.JPG, d.jpeg gives a.png, c.JPG, d.jpeg.
C7_ExtensionFilter ==
  /\ \A k \in DOMAIN stack : \A i \in DOMAIN stack[k].image_files :
       AllowListed(stack[k].image_files[i].name)
  /\ \A i \in DOMAIN clicks : clicks[i][1] = "file" => AllowListed(clicks[i][3])
  /\ ~sess.faults =>
       \A k \in DOMAIN stack :
         stack[k].phase # "enter" =>
           NamesOf(stack[k].image_files) =
             ExpectedLeaves(stack[k].path,
                            SubSeq(stack[k].raw_files, 1, stack[k].fi - 1))
  /\ cpc = "done" =>
       /\ \A n \in AllNodes(tree) : \A i \in DOMAIN n.files : AllowListed(n.files[i].name)
       /\ (remote = RemoteFiles /\ ~sess.faults)
            => NamesOf(tree.files) = <<APng, CJPG, DJpeg>>

\* the example listing was crawled and three leaves were activated
C7_Witness ==
  /\ cpc = "done"
  /\ remote = RemoteFiles
  /\ NamesOf(tree.files) = <<APng, CJPG, DJpeg>>
  /\ Len(clicks) = 3

\* C15: every call of run() that created a session releases it exactly
\* once on each way out (return, failure of the first load or wait, failure
\* in the traversal) and before its caller goes on, so that at most one
\* session is live: a session is live exactly while run() is in its try
\* block, no call of run() is left with a session open, a release is of the
\* live session or of the one just created, and a session is created only
\* when none is live.
C15_SessionRelease ==
  /\ [](/\ acquired - released \in {0, 1}
        /\ (driver = "live") <=> (acquired = released + 1)
        /\ (cpc = "running") <=> (driver = "live")
        /\ cpc \in {"idle", "done", "raised"} => released = acquired)
  /\ [][ /\ released' \in {released, released + 1}
         /\ acquired' \in {acquired, acquired + 1}
         /\ released' = released + 1
              => (driver = "live" \/ acquired' = acquired + 1)
         /\ acquired' = acquired + 1 => released = acquired
         /\ (cpc = "running" /\ cpc' # "running") => released' = released + 1
       ]_vars

\* the second call of run() ended by an exception in the traversal, after a
\* first call that returned or raised: both sessions are released
C15_Witness ==
  /\ cpc = "raised"
  /\ exc = <<"TypeError">>
  /\ acquired = 2
  /\ released = 2
  /\ driver = "quit"

\* C34: at the moment each leaf and each child container of a node is
\* activated, the session's location is that node's location; this holds
\* too for the siblings that follow a navigate_back which timed out and
\* forced the hash.
C34_NavigationPosition ==
  /\ [](( cpc = "running" /\ Top.phase \in {"files", "folders"}) => loc = Top.path)
  /\ [][ (clicks' # clicks) =>
           /\ cpc = "running"
           /\ Top.phase \in {"files", "folders"}
           /\ loc = Top.path
           /\ clicks' = Append(clicks,
                          <<clicks'[Len(clicks')][1], Top.path, clicks'[Len(clicks')][3]>>)
       ]_vars

\* history back never converged, the jump was forced after the first child
\* of the root, and the second child was activated at the root's location
C34_Witness ==
  /\ cpc = "running"
  /\ remote = RemoteTree
  /\ sess.back = "never"
  /\ forced >= 1
  /\ Len(stack) = 2
  /\ stack[1].phase = "await"
  /\ Len(stack[1].folders) = 1
  /\ clicks[Len(clicks)] = <<"dir", PHome, NameA>>
  /\ stack[1].path = PHome

\* the folder names list_raw_items returns at location p
FoldersListedAt(p) ==
  IF p \in DOMAIN remote.anchors THEN ListRawItems(remote.anchors[p])[1] ELSE <<>>

\* the folder links of the share: <<location, name, location it leads to>>
FolderLinks ==
  UNION { {<<p, FoldersListedAt(p)[i], Link(remote, p, FoldersListedAt(p)[i])>> :
             i \in DOMAIN FoldersListedAt(p)} : p \in DOMAIN remote.anchors }

\* the share is a finite tree on which every wait succeeds: no location is
\* the target of two links, none leads to the root, and every location a
\* link leads to shows a listing
TreeShare ==
  /\ ListingPresent(remote.root)
  /\ \A e \in FolderLinks :
       /\ e[3] # remote.root
       /\ ListingPresent(e[3])
       /\ \A g \in FolderLinks : (g[3] = e[3]) => (g = e)

\* the locations exactly k edges below the root
RECURSIVE LocationsAt(_)
LocationsAt(k) ==
  IF k = 0 THEN {remote.root}
  ELSE {e[3] : e \in {g \in FolderLinks : g[1] \in LocationsAt(k - 1)}}

\* k edges from the root is within the depth limit
WithinLimit(k) == max_depth = NoDepth \/ k <= max_depth[1]

\* node n stands for location p, k edges from the root: its leaves are the
\* allow-listed names of p whose preview resolved, and below the limit its
\* children stand for the folders of p, in listing order
RECURSIVE Corresponds(_, _, _)
Corresponds(n, p, k) ==
  /\ n.path = p
  /\ NamesOf(n.files) =
       SelectSeq(IF p \in DOMAIN remote.anchors
                 THEN ListRawItems(remote.anchors[p])[2] ELSE <<>>,
                 LAMBDA nm : AllowListed(nm) /\ Truthy(PreviewSrc(remote, p, nm)))
  /\ IF WithinLimit(k + 1)
     THEN /\ Len(n.folders) = Len(FoldersListedAt(p))
          /\ \A i \in DOMAIN n.folders :
               Corresponds(n.folders[i], Link(remote, p, FoldersListedAt(p)[i]), k + 1)
     ELSE n.folders = <<>>

\* C35: with a well-behaved session on a finite tree the crawl completes
\* and its result corresponds one-to-one to the remote containers at most
\* max_depth edges from the root (all of them without a limit): same
\* parent/child structure, children in listing order, and each node's
\* leaves exactly the allow-listed names whose preview resolved.
C35_TreeCorrespondence ==
  (TreeShare /\ ~sess.faults) =>
    /\ cpc # "raised"
    /\ (cpc = "done") =>
         LET want == UNION {LocationsAt(k) : k \in {j \in 0..MaxStack : WithinLimit(j)}}
         IN  /\ Corresponds(tree, remote.root, 0)
             /\ {n.path : n \in AllNodes(tree)} = want
             /\ CountNodes(tree) = Cardinality(want)

\* the two-level share crawled with limit 1: the root and its two folders,
\* the folder below them left out, the root's leaf recorded
C35_Witness ==
  /\ cpc = "done"
  /\ TreeShare
  /\ remote = RemoteTree
  /\ ~sess.faults
  /\ max_depth = Some(1)
  /\ CountNodes(tree) = 3
  /\ NamesOf(tree.files) = <<APng>>
  /\ tree.folders[2].folders = <<>>
  /\ NamesOf(tree.folders[2].files) = <<CJPG>>

\* C36: a dfs_crawl call that finds its location not yet visited adds
\* exactly that one location to the visited set, a call that finds it
\* visited adds none, and nothing else changes the set during a crawl; so
\* in a crawl result no two nodes share a location and the number of nodes
\* equals the size of the visited set.
C36_OneVisitPerNode ==
  /\ [][ (cpc = "running" /\ Top.phase = "enter") =>
           IF loc \in visited
           THEN visited' = visited
           ELSE /\ visited' = visited \cup {loc}
                /\ Cardinality(visited') = Cardinality(visited) + 1 ]_vars
  /\ [][ (cpc = "running" /\ Top.phase # "enter") => (visited' = visited) ]_vars
  /\ [](cpc = "done" =>
          /\ Cardinality({n.path : n \in AllNodes(tree)}) = CountNodes(tree)
          /\ CountNodes(tree) = Cardinality(visited)
          /\ {n.path : n \in AllNodes(tree)} = visited)

\* a finished crawl of the two-level share: four nodes, four locations
C36_Witness ==
  /\ cpc = "done"
  /\ remote = RemoteTree
  /\ max_depth = NoDepth
  /\ CountNodes(tree) = 4
  /\ Cardinality(visited) = 4
  /\ PathCD \in visited

\* the locations whose shortest path from the root has fewer than d edges
Nearer(d) == UNION {LocationsAt(k) : k \in 0..(d - 1)}

\* the nodes of the calls that have returned so far in the current crawl
ReturnedNodes ==
  UNION { UNION {AllNodes(stack[i].folders[j]) : j \in DOMAIN stack[i].folders} :
            i \in DOMAIN stack }

\* location p was listed by a call that has returned, and the folders it
\* lists were not recursed into
LeftUnexpanded(p) ==
  /\ FoldersListedAt(p) # <<>>
  /\ \E n \in ReturnedNodes : n.path = p /\ n.folders = <<>>

\* C37: with a depth limit d, every location whose shortest path from the
\* root has fewer than d edges is expanded in the result, listed and with
\* one child per container; and a call that reaches, with depth budget
\* left, a location an earlier call left unexpanded at the limit expands it.
C37_ShorterPathExpands ==
  /\ []((cpc = "done" /\ max_depth # NoDepth) =>
          \A p \in Nearer(max_depth[1]) :
            \E n \in AllNodes(tree) :
              n.path = p /\ Len(n.folders) = Len(FoldersListedAt(p)))
  /\ [][ ( /\ cpc = "running"
           /\ ~sess.faults
           /\ Top.phase = "enter"
           /\ Top.max_depth # NoDepth
           /\ ~DepthExhausted(Top.max_depth)
           /\ max_depth # NoDepth
           /\ loc \in Nearer(max_depth[1])
           /\ LeftUnexpanded(loc) )
         => ( /\ cpc' = "running"
              /\ stack'[Len(stack')].phase = "files"
              /\ stack'[Len(stack')].path = loc ) ]_vars

\* the locations of the nodes the current call of run() has expanded: those
\* of the activations on the stack that are past the visited check and of
\* the subtrees they hold
ExpandedNow ==
  UNION { IF stack[i].phase = "enter" THEN {}
          ELSE {n.path : n \in AllNodes(NodeOf(stack[i]))} : i \in DOMAIN stack }

\* C33: the visited set is empty at the start of every call of run() and is
\* not shared between targets: while a crawl runs it holds exactly the
\* locations this crawl has expanded, so a location visited for an earlier
\* target never counts as visited in a later target's crawl.
C33_VisitedPerCrawl ==
  /\ [](cpc = "running" => visited = ExpandedNow)
  /\ [][ (cpc = "idle" /\ cpc' = "running") => (visited' = {}) ]_vars
  /\ [][ (cpc = "running" /\ Top.phase = "enter" /\ cpc' = "raised"
            /\ exc' = <<"TypeError">>) => (loc \in ExpandedNow) ]_vars

\* the second call of run() has expanded the root location, which every
\* share has in common, and a child of it
C33_Witness ==
  /\ acquired = 2
  /\ cpc = "running"
  /\ Len(stack) = 2
  /\ stack[2].phase = "files"
  /\ visited = {PHome, stack[2].path}

----------------------------------------------------------------------------
(* Properties of the batch *)

FailureKinds == {"crawl_raised", "save_raised", "append_raised"}

\* the line append_processed writes for a brand
LedgerEntry(brand) == Timestamp \o <<"\t">> \o brand \o <<"\n">>

FileText(file) == IF file = None THEN <<>> ELSE file

\* the ledger lines of the rows 1..k of the current run that succeeded
RECURSIVE EntriesOfRun(_)
EntriesOfRun(k) ==
  IF k = 0 THEN <<>>
  ELSE EntriesOfRun(k - 1) \o (IF log[k] = "ok" THEN LedgerEntry(rows[k]) ELSE <<>>)

OkRows == {i \in DOMAIN log : log[i] = "ok"}

\* C1: in a run without override, no target that succeeded in an earlier run
\* is crawled again, and no artifact of such a target is written again.
C1_IdempotentResume ==
  /\ (bpc = "crawl" /\ ~overwrite) => rows[idx] \notin succeeded
  /\ ~overwrite => \A a \in artifacts : a.run = runNo => a.brand \notin succeeded

\* the bookkeeping of a run that no interrupt cut short: every row is
\* examined in source order and is either skipped as already processed or
\* attempted; a row whose processing raised is counted as failed and no
\* entry is appended for it; every other attempted row is counted as
\* succeeded, is in the in-memory set and has its entry appended, in order;
\* a failure never ends the run.
FailureAccounting ==
  (runNo >= 1 /\ ~interrupted) =>
    /\ Len(log) <= Len(rows)
    /\ failed = Cardinality({i \in DOMAIN log : log[i] \in FailureKinds})
    /\ success = Cardinality(OkRows)
    /\ FileText(ledger) = FileText(ledger0) \o EntriesOfRun(Len(log))
    /\ processed = ReadProcessed(ledger0) \cup {rows[i] : i \in OkRows}
    /\ \A i \in DOMAIN log :
         /\ log[i] \in FailureKinds \cup {"ok", "skipped"}
         /\ log[i] = "skipped" =>
              /\ ~overwrite
              /\ rows[i] \in ReadProcessed(ledger0)
                               \cup {rows[j] : j \in {m \in OkRows : m < i}}
    /\ bpc # "crashed"
    /\ bpc \in {"summary", "exited"} => Len(log) = Len(rows)

\* C2: whatever targets fail, every target whose processing raised is
\* counted as failed and is absent from the ledger, and every other target
\* is still attempted in source order and recorded when it succeeds. The
\* absence is stated for runs without override or interrupt, where a failed target was
\* not in the ledger when the run began, and for targets of which no row
\* succeeded in the run; the ledger is the set of brands read_processed
\* finds in the file.
C2_FailureIsolation ==
  /\ FailureAccounting
  /\ (runNo >= 1 /\ ~overwrite /\ ~interrupted) =>
       \A i \in DOMAIN log :
         (/\ log[i] \in FailureKinds \ {"append_raised"}
          /\ rows[i] \notin {rows[j] : j \in OkRows})
           => rows[i] \notin ReadProcessed(ledger)

\* C9: a failure of the ledger append ends the run: it is not counted as a
\* failure of the target with the loop going on to the next row.
C9_AppendFailureAborts ==
  \A i \in DOMAIN log :
    log[i] = "append_raised" => (i = Len(log) /\ bpc \in {"crashed", "exited"})

\* C10: for a target counted as failed in the current run, this run has
\* neither created nor overwritten an artifact.
C10_NoArtifactForFailed ==
  \A i \in DOMAIN log :
    log[i] \in FailureKinds => ~\E a \in artifacts : a.run = runNo /\ a.row = i

\* the last row taken was cut by an interrupt inside the try block
CutShort == log # <<>> /\ log[Len(log)] = "interrupted"

\* C11 as stated: a target in flight when the interrupt arrives is finished:
\* its artifact is written and its ledger entry appended before the loop
\* stops.
C11_InFlightTargetFinishes ==
  \A i \in DOMAIN log :
    log[i] = "interrupted" =>
      /\ \E a \in artifacts : a.run = runNo /\ a.row = i /\ a.complete
      /\ Len(FileText(ledger)) >= Len(FileText(ledger0)) + Len(LedgerEntry(rows[i]))

\* C11 amended: an interrupt that arrives while a target is in flight cuts
\* the target short: the step in progress is abandoned and the program goes
\* to its summary without counting the target as failed; after that no step
\* of the run touches the ledger, the artifacts, the set or the counters,
\* and no further row is taken.
C11_InterruptCutsTargetShort ==
  /\ [][ (~interrupted /\ interrupted' /\ bpc \in {"crawl", "save", "append"})
           => (bpc' = "summary" /\ idx' = idx /\ failed' = failed
               /\ log' = Append(log, "interrupted")) ]_vars
  /\ [][ (CutShort /\ runNo' = runNo)
           => (/\ bpc' \in {"summary", "exited"}
               /\ UNCHANGED <<ledger, artifacts, processed, idx, total,
                              success, failed, log>>) ]_vars

\* the first row succeeded, the second was cut during its crawl: it has no
\* artifact and no ledger entry, and the run ended
C11_Witness ==
  /\ bpc = "exited"
  /\ log = <<"ok", "interrupted">>
  /\ ~\E a \in artifacts : a.run = runNo /\ a.row = 2
  /\ FileText(ledger) = FileText(ledger0) \o LedgerEntry(rows[1])

\* C12: an interrupt at any point of the loop is a graceful stop: the
\* program reaches its summary instead of dying, and what the ledger held
\* when the run began is still there.
C12_GracefulStop ==
  interrupted =>
    /\ bpc \in {"summary", "exited"}
    /\ SubSeq(FileText(ledger), 1, Len(FileText(ledger0))) = FileText(ledger0)

\* C13 as stated: every row taken, whatever became of it, is followed by
\* the pacing delay.
C13_PacingAfterEveryRow ==
  [][ (runNo' = runNo /\ Len(log') = Len(log) + 1
         /\ log'[Len(log')] \in FailureKinds \cup {"ok", "skipped"})
        => bpc' = "sleep" ]_vars

\* C13 amended: the pacing delay follows every row that was attempted,
\* succeeded or failed, and only those: a row skipped as already processed
\* goes straight to the next row, and the delay leads to the next row.
C13_PacingAfterAttempt ==
  /\ [][ (runNo' = runNo /\ Len(log') = Len(log) + 1)
           => /\ log'[Len(log')] \in FailureKinds \cup {"ok"} => bpc' = "sleep"
              /\ log'[Len(log')] = "skipped" => bpc' = "loop" ]_vars
  /\ [][ (bpc' = "sleep" /\ bpc # "sleep")
           => (Len(log') = Len(log) + 1
               /\ log'[Len(log')] \in FailureKinds \cup {"ok"}) ]_vars

\* a row was skipped and the next one failed: the program is in the delay
C13_Witness ==
  /\ bpc = "sleep"
  /\ log = <<"skipped", "crawl_raised">>

\* the brands recorded so far: by a success of an earlier run or of this one
Recorded == succeeded \cup {rows[i] : i \in OkRows}

\* C14: ledger membership is monotonic: the file is only appended to, every
\* brand once recorded is a member of the ledger as read_processed reads it
\* and, during the run, of the in-memory set, which keeps what it was loaded
\* with; and a recorded brand is not crawled again without override.
C14_LedgerMonotonic ==
  runNo >= 1 =>
    /\ Len(FileText(ledger)) >= Len(FileText(ledger0))
    /\ SubSeq(FileText(ledger), 1, Len(FileText(ledger0))) = FileText(ledger0)
    /\ ReadProcessed(ledger0) \subseteq ReadProcessed(ledger)
    /\ ReadProcessed(ledger0) \subseteq processed
    /\ {rows[i] : i \in OkRows} \subseteq processed
    /\ Recorded \subseteq ReadProcessed(ledger)
    /\ (bpc = "crawl" /\ ~overwrite) => rows[idx] \notin Recorded

\* C16: with override every row taken is crawled, member of the ledger or
\* not, and none is skipped; the entry appended for a brand that is already
\* a member leaves the set read_processed finds in the file, the one a later
\* run loads, as it was.
C16_OverrideCrawlsAll ==
  /\ [](overwrite => \A i \in DOMAIN log : log[i] # "skipped")
  /\ [][ (overwrite /\ runNo' = runNo /\ idx' = idx + 1) => bpc' = "crawl" ]_vars
  /\ [][ (overwrite /\ runNo' = runNo /\ ledger' # ledger
            /\ rows[idx] \in ReadProcessed(ledger))
           => /\ Len(FileText(ledger')) > Len(FileText(ledger))
              /\ ReadProcessed(ledger') = ReadProcessed(ledger) ]_vars

\* a run with override crawled a brand that the ledger held when the run
\* began and appended its entry: the file grew, the set it yields did not
C16_Witness ==
  /\ overwrite
  /\ bpc = "sleep"
  /\ log # <<>> /\ log[Len(log)] = "ok"
  /\ rows[idx] \in ReadProcessed(ledger0)
  /\ Len(FileText(ledger)) > Len(FileText(ledger0))
  /\ ReadProcessed(ledger) = ReadProcessed(ledger0)

\* C17: the ledger round trip: the entry append_processed writes for a brand
\* is read back by read_processed as exactly that brand, never as the
\* timestamp; a legacy line holding only a brand is read as that brand;
\* blank lines and a missing file give no members.
C17_LedgerRoundTrip ==
  /\ \A i \in OkRows :
       /\ ReadProcessed(AppendProcessed(None, rows[i])) = {rows[i]}
       /\ rows[i] \in ReadProcessed(ledger)
       /\ Timestamp \notin ReadProcessed(ledger)
  /\ (runNo >= 1 /\ ledger0 = None) => processed \subseteq {rows[i] : i \in OkRows}
  /\ (runNo >= 1 /\ ledger0 = <<"C", "\n">>) => BrandC \in processed
  /\ ReadProcessed(<<"\n", " ", "\n">>) = {}

\* C38: two distinct brands of a batch never map to the same artifact
\* path, so no artifact of a brand that succeeded is overwritten by another
\* brand: every brand this run recorded in the ledger still has, at its
\* path, a complete artifact written for that brand.
C38_ArtifactPerBrand ==
  /\ \A i, j \in DOMAIN rows :
       (rows[i] # rows[j]) => (OutJson(rows[i]) # OutJson(rows[j]))
  /\ \A i \in OkRows :
       \E a \in artifacts :
         a.path = OutJson(rows[i]) /\ a.brand = rows[i] /\ a.complete

\* the rows of this run that were skipped
SkippedRows == {i \in DOMAIN log : log[i] = "skipped"}

\* C39: when the loop has run to completion without an interrupt, total is
\* the number of rows and equals skipped + succeeded + failed, success is
\* the number of ledger entries appended in this run, and failed is the
\* number of rows whose processing raised.
C39_BatchCounters ==
  (runNo >= 1 /\ bpc \in {"summary", "exited"} /\ ~interrupted) =>
    /\ total = Len(rows)
    /\ Len(log) = Len(rows)
    /\ total = Cardinality(SkippedRows) + success + failed
    /\ success = Cardinality(OkRows)
    /\ FileText(ledger) = FileText(ledger0) \o EntriesOfRun(Len(log))
    /\ failed = Cardinality({i \in DOMAIN log : log[i] \in FailureKinds})

\* a finished run over three rows: one skipped, one succeeded, one failed
C39_Witness ==
  /\ runNo >= 1
  /\ bpc = "exited"
  /\ ~interrupted
  /\ total = 3
  /\ success = 1
  /\ failed = 1
  /\ Cardinality(SkippedRows) = 1

----------------------------------------------------------------------------
(* Properties of flatten *)

\* C8: the flat listing of a tree has one folder row per node and one file
\* row per leaf: as many folder rows as nodes, as many file rows as the leaf
\* lists of all nodes hold together, and nothing else.
C8_FlatTreeEquivalence ==
  fpc = "done" =>
    /\ CountRows(frows, "folder") = CountNodes(ftree)
    /\ CountRows(frows, "file") = SumLeaves(ftree)
    /\ Len(frows) = CountNodes(ftree) + SumLeaves(ftree)

\* a tree with placeholders between nodes that hold leaves was flattened
C8_Witness ==
  /\ fpc = "done"
  /\ ftree = DeepTree
  /\ CountRows(frows, "folder") = 6
  /\ CountRows(frows, "file") = 6

\* the nodes of a tree in depth-first pre-order, by a walk that keeps the
\* nodes still to be visited on a stack: the top node is emitted and its
\* children take its place, first child on top
RECURSIVE PreOrder(_)
PreOrder(todo) ==
  IF todo = <<>> THEN <<>>
  ELSE <<Head(todo)>> \o PreOrder(Head(todo).folders \o Tail(todo))

\* the rows owed to one node: its folder row, then a file row per leaf that
\* carries the node's location and names
RowsOfNode(n) ==
  << [type |-> "folder", path |-> n.path,
      folder_display_name |-> n.folder_display_name,
      folder_encoded_name |-> n.folder_encoded_name] >>
    \o [i \in DOMAIN n.files |->
          [type |-> "file", path |-> n.path, name |-> n.files[i].name,
           preview_src |-> n.files[i].preview_src,
           parent_folder_display_name |-> n.folder_display_name,
           parent_folder_encoded_name |-> n.folder_encoded_name]]

RECURSIVE RowsOfNodes(_)
RowsOfNodes(ns) ==
  IF ns = <<>> THEN <<>> ELSE RowsOfNode(Head(ns)) \o RowsOfNodes(Tail(ns))

\* C32: the flat view is the depth-first pre-order of the tree: for each
\* node its folder row, then one file row per leaf in leaf order, then the
\* rows of each child subtree in child order; every file row carries the
\* location and names of the node that owns the leaf.
C32_FlatIsPreOrder ==
  fpc = "done" => frows = RowsOfNodes(PreOrder(<<ftree>>))

\* the three-level tree was flattened: the root's leaves come before its
\* first child, and the leaves of the deepest node carry that node's names
C32_Witness ==
  /\ fpc = "done"
  /\ ftree = DeepTree
  /\ Len(frows) = 12
  /\ frows[2].type = "file" /\ frows[2].path = PHome
  /\ frows[4].type = "folder" /\ frows[4].folder_display_name = NameA
  /\ frows[7].type = "file" /\ frows[7].parent_folder_display_name = NameB
  /\ frows[10].type = "folder" /\ frows[10].folder_display_name = NameB

\* C18 as stated: two serializations of the same tree with the same
\* caller-supplied meta give the same output.
C18_SerializerRepeatable ==
  \A i \in DOMAIN outs : \A j \in DOMAIN outs : outs[i] = outs[j]

\* C18 amended: two serializations of the same tree with the same meta give
\* outputs that agree on the tree, on the flat rows and on every key of the
\* caller's meta; the outputs differ at most in meta.generated_at, which is
\* the clock's reading at the call unless the caller's meta supplies it, in
\* which case the outputs are the same.  The tree is left as it was: what is
\* written is the tree given, and its rows are still the rows of the tree.
C18_RepeatableUpToStamp ==
  /\ [](\A i \in DOMAIN outs :
          /\ outs[i].tree = ftree
          /\ outs[i].flat = Flatten(ftree)
          /\ DOMAIN outs[i].meta = DOMAIN meta \cup {"generated_at"}
          /\ \A k \in DOMAIN meta : outs[i].meta[k] = meta[k]
          /\ \A j \in DOMAIN outs :
               /\ outs[i].tree = outs[j].tree
               /\ outs[i].flat = outs[j].flat
               /\ "generated_at" \in DOMAIN meta => outs[i] = outs[j])
  /\ [][ftree' = ftree /\ meta' = meta]_vars

\* the deep tree was serialized twice with the clock moving in between: the
\* outputs differ, and only in generated_at
C18_Witness ==
  /\ ftree = DeepTree
  /\ "brand" \in DOMAIN meta
  /\ Len(outs) = 2
  /\ outs[1] # outs[2]
  /\ outs[1].tree = outs[2].tree
  /\ outs[1].flat = outs[2].flat
  /\ outs[1].meta["brand"] = outs[2].meta["brand"]

----------------------------------------------------------------------------
(* Properties of click_folder_by_name / click_file_by_name *)

\* the interactive attempts made so far all failed with a fault the loop
\* catches
AllTriesCaught == \A a \in 1..ktries : CaughtByRetry(kenv.attempts[a])

\* C19: the call raises to its caller only when the forced activation
\* itself failed: whenever an exception leaves the call, the forced
\* activation has been tried.
C19_RaisesOnlyAfterFallback ==
  kpc = "raised" => kforced >= 1

\* C20: at most 3 interactive attempts are made; the call returns right
\* after the first attempt that succeeds, with no further attempt and no
\* forced activation, the entry being activated once; the forced activation
\* is made once, after exactly 3 attempts that all failed with a fault the
\* loop catches, and it is made whenever they did; a call that is over does
\* nothing more.
C20_BoundedAttempts ==
  /\ [](/\ ktries <= 3
        /\ kforced <= 1
        /\ kactivated <= 1
        /\ kforced = 1 => (ktries = 3 /\ AllTriesCaught)
        /\ (ktries = 3 /\ AllTriesCaught /\ kpc \in {"returned", "raised"})
             => kforced = 1
        /\ kpc = "returned" =>
             /\ kactivated = 1
             /\ \/ kforced = 1
                \/ /\ kforced = 0
                   /\ ktries >= 1
                   /\ kenv.attempts[ktries] = "ok"
                   /\ \A a \in 1..(ktries - 1) : CaughtByRetry(kenv.attempts[a]))
  /\ [][ (kpc \in {"returned", "raised"}) => (clickVars' = clickVars) ]_vars
  /\ [][kactivated' = kactivated + 1 => kpc' = "returned"]_vars

\* three attempts failed, intercepted or stale, and the JS click activated
\* the entry
C20_Witness ==
  /\ kpc = "returned"
  /\ ktries = 3
  /\ kforced = 1
  /\ kactivated = 1
  /\ kenv.attempts[1] = "ElementClickInterceptedException"
  /\ kenv.attempts[2] = "StaleElementReferenceException"


\* the brands of the lines the processed file held before the first run
LegacyBrands ==
  IF StartsWith(FileText(ledger), <<"C", "\n">>) THEN {BrandC} ELSE {}

\* the brand whose row is between crawl success and the end of its append
InFlight == IF bpc \in {"save", "append"} THEN {rows[idx]} ELSE {}

\* C31: at every point of a batch run, also right after it was cut at any
\* step, every brand recorded in the ledger has had its artifact completely
\* written, an entry being appended only after save_json returned; a brand
\* whose processing was cut between crawl success and the append is not in
\* the ledger and is not skipped by the next run.
C31_CrashResumable ==
  /\ [](ReadProcessed(ledger) \subseteq saved \cup LegacyBrands)
  /\ [][ (ledger' # ledger) => (rows[idx] \in saved) ]_vars
  /\ [](\A b \in pending \ InFlight : b \notin ReadProcessed(ledger))
  /\ [][ (log' = Append(log, "skipped")) => (rows[idx'] \notin pending) ]_vars

\* C30: the in-memory set never runs ahead of the ledger: at every point
\* of a run each brand in `processed` is already present in the processed
\* file, because it is added in memory only after append_processed returned.
C30_MemoryNotAheadOfLedger ==
  (runNo >= 1 /\ bpc # "idle") => processed \subseteq ReadProcessed(ledger)

----------------------------------------------------------------------------
(* Properties of the order of a Node's visit *)

\* the entries of one kind activated at location p, in order of activation
ActivatedAt(kind, p) ==
  LET cs == SelectSeq(clicks, LAMBDA c : c[1] = kind /\ c[2] = p)
  IN  [j \in DOMAIN cs |-> cs[j][3]]

\* C26: for every expanded Node all its leaves are recorded, in listing
\* order, before the first of its containers is activated, and no leaf is
\* added to a Node once recursion into one of its children has begun.
C26_LeavesBeforeContainers ==
  /\ [](\A i \in DOMAIN stack :
          LET f == stack[i]
          IN  /\ (f.phase \in {"enter", "files"}) =>
                   (f.folders = <<>> /\ f.di = 1)
              /\ (f.phase \in {"folders", "await", "return"}) =>
                   f.fi > Len(f.raw_files)
              /\ NamesOf(f.image_files) =
                   SelectSeq(SubSeq(f.raw_files, 1, f.fi - 1),
                             LAMBDA nm : \E k \in DOMAIN f.image_files :
                                           f.image_files[k].name = nm))
  /\ [](\A i \in DOMAIN clicks : \A j \in DOMAIN clicks :
          (clicks[i][1] = "dir" /\ clicks[j][1] = "file" /\ clicks[i][2] = clicks[j][2])
            => j < i)
  /\ [][ \A i \in DOMAIN stack :
           (i \in DOMAIN stack' /\ stack[i].phase \in {"folders", "await", "return"})
             => stack'[i].image_files = stack[i].image_files ]_vars

\* the root recorded a leaf that its listing shows between two containers,
\* and the visit of its first child is over
C26_Witness ==
  /\ cpc = "running"
  /\ remote = RemoteTree
  /\ Len(stack) >= 1
  /\ stack[1].phase = "folders"
  /\ NamesOf(stack[1].image_files) = <<APng>>
  /\ Len(stack[1].folders) = 1

\* node n, visited with depth budget d, and every node below it: unless the
\* budget was used up, one child per folder name of the listing, in the
\* order of the listing, the folders having been activated in that order
RECURSIVE ChildrenFollowListing(_, _)
ChildrenFollowListing(n, d) ==
  DepthExhausted(d) \/
    LET want == FoldersListedAt(n.path)
    IN  /\ Len(n.folders) = Len(want)
        /\ \A k \in DOMAIN n.folders : n.folders[k].folder_display_name = want[k]
        /\ ActivatedAt("dir", n.path) = want
        /\ \A k \in DOMAIN n.folders : ChildrenFollowListing(n.folders[k], Decr(d))

\* C27: in a crawl that completes, each expanded Node below the depth limit
\* has exactly one child per container name of its listing, the children
\* are in the listing's order and the containers were activated in that
\* order; nothing is sorted or reordered.
C27_SiblingOrder ==
  cpc = "done" => ChildrenFollowListing(tree, max_depth)

\* a completed crawl whose root lists "C D" before "A" and has both children
C27_Witness ==
  /\ cpc = "done"
  /\ remote = RemoteTree
  /\ Len(tree.folders) = 2
  /\ tree.folders[1].folder_display_name = NameC
  /\ tree.folders[2].folder_display_name = NameA
  /\ Len(tree.folders[2].folders) = 1

\* node n and every node below it: each child carries the name listed for
\* it at n and the percent-encoding of that name
RECURSIVE LabelsFollowNames(_, _)
LabelsFollowNames(n, names) ==
  \A k \in DOMAIN n.folders :
    /\ k <= Len(names)
    /\ n.folders[k].folder_display_name = names[k]
    /\ n.folders[k].folder_encoded_name = Quote(names[k])
    /\ LabelsFollowNames(n.folders[k], FoldersListedAt(n.folders[k].path))

\* C29: every non-root Node's display name is the entry name that was
\* activated to reach it and its encoded name is the percent-encoding of
\* that name, whatever location the session reports after the activation;
\* only the root takes its names from the last segment of its location.
C29_NamesFromActivatedEntry ==
  /\ \A i \in DOMAIN stack :
       (stack[i].phase # "enter") =>
         /\ LabelsFollowNames(NodeOf(stack[i]), stack[i].raw_folders)
         /\ SubSeq(stack[i].raw_folders, 1, Len(stack[i].folders))
              = SubSeq(ActivatedAt("dir", stack[i].path), 1, Len(stack[i].folders))
  /\ (Len(stack) >= 1 /\ stack[1].phase # "enter") =>
       <<stack[1].display, stack[1].encoded>> = LastSegmentNames(stack[1].path)
  /\ (cpc = "done") =>
       /\ LabelsFollowNames(tree, FoldersListedAt(tree.path))
       /\ <<tree.folder_display_name, tree.folder_encoded_name>>
            = LastSegmentNames(tree.path)

\* a completed crawl with a child reached through "C D" whose location the
\* share reports as /h/C+D
C29_Witness ==
  /\ cpc = "done"
  /\ \E k \in DOMAIN tree.folders :
       /\ tree.folders[k].path = PathCD
       /\ tree.folders[k].folder_display_name = NameC
       /\ tree.folders[k].folder_encoded_name = <<"C","%","2","0","D">>
       /\ LastSegmentNames(tree.folders[k].path)[1] # NameC

----------------------------------------------------------------------------
(* Properties of the adapter calls *)

\* C21: navigate_back never fails outright: whatever the session does it
\* returns normally, and when the back action does not converge it forces
\* the jump to previous_path and re-syncs instead of raising.
C21_GoBackNeverFails ==
  apc = "done" => ares.exc = None

\* C22: close_preview never raises: it tries the ESC key first, then each
\* fallback selector in the fixed order, stops at the first dismissal that
\* is confirmed, and returns normally even when none is confirmed.
C22_ClosePreviewNeverRaises ==
  apc = "done" =>
    LET n == Len(ares.tried)
    IN  /\ ares.exc = None
        /\ n >= 1
        /\ ares.tried = SubSeq(Dismissals, 1, n)
        /\ \A i \in 1..(n - 1) : aenv[i] # "confirmed"
        /\ IF \E i \in DOMAIN Dismissals : aenv[i] = "confirmed"
           THEN /\ aenv[n] = "confirmed"
                /\ ares.closed_by = <<Dismissals[n]>>
                /\ ~ares.warned
           ELSE /\ n = Len(Dismissals)
                /\ ares.closed_by = None
                /\ ares.warned

\* a call in which no dismissal is confirmed and the fallbacks fail in
\* different ways
C22_Witness ==
  /\ apc = "done"
  /\ ares.closed_by = None
  /\ ares.tried = Dismissals
  /\ aenv[1] = "TimeoutException"
  /\ aenv[2] = "NoSuchElementException"
  /\ aenv[3] = "ElementNotInteractableException"

----------------------------------------------------------------------------
(* Properties of the leaf loop *)

\* positions in lcalls of the calls of function fn made for leaf f
CallsOf(fn, f) ==
  {j \in DOMAIN lcalls : lcalls[j][1] = fn /\ lcalls[j][2] = f}

\* the names for which click_file_by_name was called, in order of the calls
Activated ==
  LET cs == SelectSeq(lcalls, LAMBDA c : c[1] = "click_file_by_name")
  IN  [j \in DOMAIN cs |-> cs[j][2]]

RecordedNames == {limage_files[i].name : i \in DOMAIN limage_files}

SkippedNames == {lskipped[i] : i \in DOMAIN lskipped}

\* C23: when no preview appears within the wait, the preview call returns
\* None without raising; that leaf is not recorded and not activated again,
\* and close_preview and wait_for_listing are still called for it before
\* the next leaf is activated.
C23_NoPreviewIsSoft ==
  \A j \in DOMAIN lcalls :
    (lcalls[j][1] = "wait_for_preview_image_and_get_src" /\ lcalls[j][3] = None) =>
      LET f == lcalls[j][2]
      IN  /\ f \notin RecordedNames
          /\ Cardinality(CallsOf("click_file_by_name", f)) = 1
          /\ (Len(lcalls) = j) => (lpc \in {"record", "close"} /\ lfiles[li] = f)
          /\ (Len(lcalls) > j) =>
               (lcalls[j + 1][1] = "close_preview" /\ lcalls[j + 1][2] = f)
          /\ (Len(lcalls) > j + 1) =>
               (lcalls[j + 2][1] = "wait_for_listing" /\ lcalls[j + 2][2] = f)
          /\ (lpc = "done") => (Len(lcalls) >= j + 2)

\* the loop is over, a leaf had no preview and a later leaf was recorded
C23_Witness ==
  /\ lpc = "done"
  /\ \E j \in DOMAIN lcalls :
       /\ lcalls[j][1] = "wait_for_preview_image_and_get_src"
       /\ lcalls[j][3] = None
       /\ \E k \in DOMAIN lcalls :
            /\ k > j
            /\ lcalls[k][1] = "click_file_by_name"
            /\ lcalls[k][2] \in RecordedNames

\* C24: an error raised at any step of a leaf's extraction is caught inside
\* the leaf loop: it never leaves the loop, and every allow-listed leaf of
\* the listing is still attempted, once and in listing order.
C24_LeafFailureIsolation ==
  /\ lpc # "raised"
  /\ LET want == SelectSeq(lfiles, IsImageName)
     IN  /\ Len(Activated) <= Len(want)
         /\ Activated = SubSeq(want, 1, Len(Activated))
         /\ (lpc = "done") => (Activated = want)

\* the activation of the first leaf failed with an error other than a
\* timeout, a later leaf failed at the preview wait, and the loop still ended
C24_Witness ==
  /\ lpc = "done"
  /\ Len(lcalls) >= 2
  /\ lcalls[1] = <<"click_file_by_name", lfiles[1], <<"WebDriverException">> >>
  /\ \E k \in DOMAIN lcalls :
       /\ lcalls[k][1] = "wait_for_preview_image_and_get_src"
       /\ lcalls[k][3] = <<"StaleElementReferenceException">>
  /\ Len(lskipped) = 2

\* C25: a leaf logged as skipped is not among the leaves recorded for the
\* Node: the recorded and the skipped leaves are disjoint.
C25_SkippedNotRecorded ==
  RecordedNames \cap SkippedNames = {}

\* the positions of the anchors of one kind whose stripped text is a name,
\* stale ones included or not
Entries(kind, withStale) ==
  {i \in DOMAIN aenv : /\ aenv[i].kind = kind
                       /\ Strip(aenv[i].text) # <<>>
                       /\ (withStale \/ ~aenv[i].stale)}

\* names is the names of the entries at positions E, each once, ordered by
\* first occurrence
FirstOccurrences(names, E) ==
  /\ \A j \in DOMAIN names : \A k \in DOMAIN names :
       (j # k) => (names[j] # names[k])
  /\ {names[j] : j \in DOMAIN names} = {Strip(aenv[i].text) : i \in E}
  /\ \A j \in DOMAIN names : \A k \in DOMAIN names :
       (j < k) =>
         \E i \in E : /\ Strip(aenv[i].text) = names[j]
                      /\ \A m \in E : (Strip(aenv[m].text) = names[k]) => i < m

\* the listing is read only after the readiness wait succeeded
ReadAfterReady ==
  /\ ares.read = (aenv # <<>>)
  /\ (ares.exc = None) = ares.read
  /\ (~ares.read) => (ares.folders = <<>> /\ ares.files = <<>>)

\* C28 as stated: list_raw_items returns the containers and the leaves as
\* two sequences, each holding every listed name of its kind exactly once at the position
\* of its first occurrence; entries with an empty name or with neither kind
\* marker are omitted; the listing is read only after the readiness wait.
C28_EveryNameOnce ==
  apc = "done" =>
    /\ ReadAfterReady
    /\ ares.read => /\ FirstOccurrences(ares.folders, Entries("dir", TRUE))
                    /\ FirstOccurrences(ares.files, Entries("file", TRUE))

\* C28: list_raw_items returns the containers and the leaves as two
\* sequences, each preserving listing order and holding exactly once, at
\* the position of its first occurrence, every name of its kind that could
\* be read; entries with an empty name, with neither kind marker, or whose
\* element went stale while it was read are omitted; the listing is read
\* only after the readiness wait succeeded.
C28_EveryReadableNameOnce ==
  apc = "done" =>
    /\ ReadAfterReady
    /\ ares.read => /\ FirstOccurrences(ares.folders, Entries("dir", FALSE))
                    /\ FirstOccurrences(ares.files, Entries("file", FALSE))

\* a listing with a folder name written with white space around it, a
\* folder entry that went stale while it was read, and the first name again
C28_Witness ==
  /\ apc = "done"
  /\ Len(aenv) >= 3
  /\ aenv[1] = [text |-> <<" ","A"," ">>, kind |-> "dir", stale |-> FALSE]
  /\ aenv[2] = [text |-> <<"B">>, kind |-> "dir", stale |-> TRUE]
  /\ aenv[3] = [text |-> <<"A">>, kind |-> "dir", stale |-> FALSE]
  /\ ares.folders = << <<"A">> >>

====